---- MODULE Spec2Model ----
(***************************************************************************)
(* A model of the SMPC runtime core: the multiplication task               *)
(* (core/vm/mul/mul.go), the VM dispatcher and the stack interpreter it    *)
(* drives.  Go maps are functions whose DOMAIN is the set of keys present. *)
(***************************************************************************)
EXTENDS Integers, Sequences, FiniteSets, TLC

(***************************************************************************)
(* Bounds of the model and program constants.                              *)
(***************************************************************************)
\* number of participants and reconstruction threshold (multiplier.n, .k)
N == 3
K == 2
\* length of the share batches carried by Mul / OpenMul
Batch == 1
\* how many Mul signals the environment hands to one multiplier
MaxMul == 2
\* how many Result and Err outputs of one program the dispatcher is followed for
MaxTerminals == 2
\* how many values the stack of a program under the interpreter alone starts with
MaxStack == 3
\* how many calls of Exec such a program is followed for
MaxCalls == 4
\* the prime of the field used by the repository's tests
Q == 251

\* the message ids of the multiplications: program 1, pc 3
IDs == {<<1, 3>>}

(***************************************************************************)
(* Go maps.                                                                *)
(***************************************************************************)
EmptyMap == << >>

Put(map, key, val) ==
    [x \in (DOMAIN map) \cup {key} |-> IF x = key THEN val ELSE map[x]]

Del(map, key) ==
    [x \in (DOMAIN map) \ {key} |-> map[x]]

(***************************************************************************)
(* Prime field F_q (algebra package) and Shamir shares (shamir package).   *)
(***************************************************************************)
FAdd(a, b) == (a + b) % Q
FSub(a, b) == (a - b + Q) % Q
FMul(a, b) == (a * b) % Q

RECURSIVE FPow(_, _)
FPow(a, e) ==
    IF e = 0 THEN 1
    ELSE IF e % 2 = 0 THEN FPow(FMul(a, a), e \div 2)
    ELSE FMul(a, FPow(FMul(a, a), e \div 2))

\* inverse of a non-zero element
FInvTable == [a \in 1..(Q - 1) |-> FPow(a, Q - 2)]
FInv(a) == FInvTable[a]

\* shamir.New(index, value)
ShareNew(index, value) == [index |-> index, value |-> value]

ShareAdd(a, b) == ShareNew(a.index, FAdd(a.value, b.value))
ShareSub(a, b) == ShareNew(a.index, FSub(a.value, b.value))
ShareMul(a, b) == ShareNew(a.index, FMul(a.value, b.value))

RECURSIVE FSum(_, _)
\* sum over the finite set S of f[s]
FSum(f, S) ==
    IF S = {} THEN 0
    ELSE LET s == CHOOSE x \in S : TRUE
         IN FAdd(f[s], FSum(f, S \ {s}))

RECURSIVE FProd(_, _)
FProd(f, S) ==
    IF S = {} THEN 1
    ELSE LET s == CHOOSE x \in S : TRUE
         IN FMul(f[s], FProd(f, S \ {s}))

\* shares: a function from some finite key set to shares (the slice handed to
\* Join, keyed here by the position it came from).
JoinFails(shares) ==
    \/ DOMAIN shares = {}
    \/ \E s, t \in DOMAIN shares : s /= t /\ shares[s].index = shares[t].index

\* Lagrange interpolation at x = 0.
Join(shares) ==
    LET D == DOMAIN shares
        basis(s) ==
            FProd([t \in D \ {s} |->
                      FMul(shares[t].index % Q,
                           FInv(FSub(shares[t].index % Q, shares[s].index % Q)))],
                  D \ {s})
    IN FSum([s \in D |-> FMul(shares[s].value, basis(s))], D)

\* a polynomial is the sequence of its coefficients, constant term first
RECURSIVE Eval(_, _)
Eval(poly, x) ==
    IF Len(poly) = 0 THEN 0
    ELSE FAdd(Head(poly), FMul(x % Q, Eval(Tail(poly), x)))

(***************************************************************************)
(* Messages of the multiplier (mul.go lines 122-186) and of the            *)
(* CheckDeadline signal (rng/message.go lines 219-236).                    *)
(***************************************************************************)
NewMul(id, xs, ys, rhos, sigmas) ==
    [type |-> "Mul", id |-> id, xs |-> xs, ys |-> ys, rhos |-> rhos, sigmas |-> sigmas]

NewOpenMul(id, from, shares) ==
    [type |-> "OpenMul", id |-> id, from |-> from, shares |-> shares]

NewResult(id, shares) ==
    [type |-> "Result", id |-> id, shares |-> shares]

NewCheckDeadline(time) ==
    [type |-> "CheckDeadline", time |-> time]

\* newMultiplier(index, n, k, cap)
newMultiplier(index, n, k) ==
    [index |-> index, n |-> n, k |-> k,
     muls |-> EmptyMap, opens |-> EmptyMap, results |-> EmptyMap]

\* What one call of a reducer leaves behind: the multiplier, the messages it
\* returns (nil results are left out of a batch) and whether it panicked.
Ret(m, out) == [m |-> m, out |-> out, panic |-> FALSE]
Panic(m) == [m |-> m, out |-> << >>, panic |-> TRUE]

\* a threshold test that is satisfied one sender early
EnoughShares_OneEarly(m, count) == count + 1 >= m.k

\* the threshold test of tryOpenMul, line 81
EnoughShares(m, count) == count >= m.k

\* the share tryOpenMul computes for one batch position, lines 108-110
ReduceShare(sigma, value) == ShareSub(ShareNew(sigma.index, value), sigma)

\* an end of a multiplication that does not cache the result
Complete_NoCache(m, id, result) ==
    [m EXCEPT !.muls = Del(m.muls, id),
              !.opens = Del(m.opens, id)]

\* the bookkeeping that ends a multiplication, lines 115-117
Complete(m, id, result) ==
    [m EXCEPT !.results = Put(m.results, id, result),
              !.muls = Del(m.muls, id),
              !.opens = Del(m.opens, id)]

tryOpenMul(m, message) ==
    LET id == message.id
        os0 == IF id \in DOMAIN m.opens THEN m.opens[id] ELSE EmptyMap
        os == Put(os0, message.from, message)
        m1 == [m EXCEPT !.opens = Put(m.opens, id, os)]
        froms == DOMAIN os
        batch == Len(message.shares)
        column(b) == [s \in froms |-> os[s].shares[b]]
    IN IF ~EnoughShares(m1, Cardinality(froms)) THEN Ret(m1, << >>)
       ELSE IF id \notin DOMAIN m1.muls THEN Ret(m1, << >>)
       ELSE IF id \in DOMAIN m1.results THEN Ret(m1, << >>)
       ELSE IF \/ Cardinality(froms) > m1.n
               \/ \E b \in 1..batch : JoinFails(column(b))
            THEN Panic(m1)
       ELSE LET shares == [b \in 1..batch |->
                              ReduceShare(m1.muls[id].sigmas[b], Join(column(b)))]
                result == NewResult(id, shares)
            IN Ret(Complete(m1, id, result), <<result>>)

\* an opening of the product without its mask
OpenShare_NoMask(x, y, rho) == ShareMul(x, y)

\* the share a multiplier opens for one batch position, lines 62-63
OpenShare(x, y, rho) == ShareAdd(ShareMul(x, y), rho)

\* a store of the signal that drops the OpenMul messages received before it
SignalStore_DropOpens(m, message) ==
    [m EXCEPT !.muls = Put(m.muls, message.id, message),
              !.opens = Del(m.opens, message.id)]

\* mul stores the signal, line 56 (a Mul already stored is replaced)
SignalStore(m, message) ==
    [m EXCEPT !.muls = Put(m.muls, message.id, message)]

\* an answer to a Mul of a completed id that opens the product again
Cached_Reopen(m, message) ==
    Ret(m, <<m.results[message.id],
             NewOpenMul(message.id, m.index,
                        [b \in 1..Len(message.xs) |->
                            OpenShare(message.xs[b], message.ys[b], message.rhos[b])])>>)

\* mul answers a Mul of a completed id with the cached Result, lines 53-55
Cached(m, message) == Ret(m, <<m.results[message.id]>>)

mul(m, message) ==
    IF message.id \in DOMAIN m.results
    THEN Cached(m, message)
    ELSE LET m1 == SignalStore(m, message)
             shares == [b \in 1..Len(message.xs) |->
                           OpenShare(message.xs[b], message.ys[b], message.rhos[b])]
             om == NewOpenMul(message.id, m.index, shares)
             r == tryOpenMul(m1, om)
         IN IF r.panic THEN Panic(r.m) ELSE Ret(r.m, r.out \o <<om>>)

\* multiplier.Reduce
Reduce(m, message) ==
    IF message.type = "Mul" THEN mul(m, message)
    ELSE IF message.type = "OpenMul" THEN tryOpenMul(m, message)
    ELSE Panic(m)

(***************************************************************************)
(* The inputs of one multiplication.  inp fixes the secrets x, y, r and    *)
(* the degrees of the sharing polynomials; batch position b shares         *)
(* secret + (b - 1).                                                       *)
(***************************************************************************)
\* secret + t^deg (a constant polynomial when deg = 0), as coefficients
Poly(secret, deg) ==
    [i \in 1..(deg + 1) |-> IF i = 1 THEN secret % Q ELSE IF i = deg + 1 THEN 1 ELSE 0]

LowDeg == (K - 1) \div 2

Inputs ==
    [x : {6}, y : {7, 250}, r : {3},
     dx : {LowDeg, K - 1}, dy : {LowDeg, K - 1},
     drho : {K - 1}, dsig : {K - 1, 2 * (K - 1)}]

\* inputs whose product polynomial x * y + rho has degree at most K - 1
LowInputs ==
    [x : {6}, y : {7}, r : {3},
     dx : {LowDeg}, dy : {K - 1 - LowDeg}, drho : {K - 1}, dsig : {K - 1}]

PolyX(in, b) == Poly(in.x + (b - 1), in.dx)
PolyY(in, b) == Poly(in.y + (b - 1), in.dy)
PolyRho(in, b) == Poly(in.r + (b - 1), in.drho)
PolySigma(in, b) == Poly(in.r + (b - 1), in.dsig)

SharesOf(poly(_), i) == [b \in 1..Batch |-> ShareNew(i, Eval(poly(b), i))]

\* the Mul the dispatcher of participant i sends for id; the variant "alt"
\* carries other sigma shares than the first one
EnvMul(in, id, i, variant) ==
    LET px(b) == PolyX(in, b)
        py(b) == PolyY(in, b)
        prho(b) == PolyRho(in, b)
        psig(b) == PolySigma(in, b)
        sig == SharesOf(psig, i)
    IN NewMul(id, SharesOf(px, i), SharesOf(py, i), SharesOf(prho, i),
              IF variant = "alt"
              THEN [b \in 1..Batch |-> ShareNew(i, FAdd(sig[b].value, 1))]
              ELSE sig)

\* the OpenMul a multiplier of index i returns for its Mul (the last message
\* of the batch mul returns)
HonestOpenMul(in, id, i) ==
    LET r == mul(newMultiplier(i, N, K), EnvMul(in, id, i, "honest"))
    IN r.out[Len(r.out)]

Other(s) == (s % N) + 1

\* the OpenMul messages the network can hand to a multiplier in the name of
\* sender from: the honest one, one with a perturbed value, and one whose
\* shares carry the index of another participant
EnvOpenMul(in, id, from, variant) ==
    LET own == HonestOpenMul(in, id, from).shares
        oth == HonestOpenMul(in, id, Other(from)).shares
    IN NewOpenMul(id, from,
        [b \in 1..Batch |->
            IF variant = "badval" THEN ShareNew(from, FAdd(own[b].value, 1))
            ELSE IF variant = "badidx" THEN oth[b]
            ELSE own[b]])

MulVariants == {"honest", "alt"}
OpenVariants(from) ==
    IF from = 1 THEN {"badval"}
    ELSE IF from = 2 THEN {"honest", "badval"}
    ELSE IF from = 3 THEN {"honest", "badidx"}
    ELSE {"honest"}
\* senders the network can name; N + 1 is no participant
Senders == 1..(N + 1)

(***************************************************************************)
(* The program interpreter.  A Code slice points into an array of          *)
(* instructions: heap maps the arrays to their contents, and two programs  *)
(* built from one slice name the same array.  chans maps the channels the  *)
(* instructions made (capacity 1) to their contents.                       *)
(***************************************************************************)
ValuePublic(int) == [kind |-> "Public", int |-> int]
ValuePrivate(share) == [kind |-> "Private", share |-> share]
ValuePrivateRn(rho, sigma) == [kind |-> "PrivateRn", rho |-> rho, sigma |-> sigma]

NilCh == << >>
NilIntent == [type |-> "nil"]
NilID == << >>

InstPush(value) == [op |-> "Push", value |-> value]
InstAdd == [op |-> "Add"]
InstRand ==
    [op |-> "Rand", rhoCh |-> NilCh, sigmaCh |-> NilCh,
     rhoReady |-> FALSE, sigmaReady |-> FALSE, rho |-> << >>, sigma |-> << >>]
InstMul == [op |-> "Mul", retCh |-> NilCh, retReady |-> FALSE, ret |-> << >>]
InstOpen == [op |-> "Open", retCh |-> NilCh, retReady |-> FALSE, ret |-> 0]

New(id, code) == [id |-> id, stack |-> << >>, pc |-> 0, code |-> code]

Multiply_SwapXY(x, y, rho, sigma, ret) ==
    [type |-> "Multiply", iid |-> NilID, xs |-> y, ys |-> x,
     rhos |-> rho, sigmas |-> sigma, ret |-> ret]

GenRn(rho, sigma) ==
    [type |-> "GenerateRnTuple", iid |-> NilID, rhos |-> rho, sigmas |-> sigma]
Multiply(x, y, rho, sigma, ret) ==
    [type |-> "Multiply", iid |-> NilID, xs |-> x, ys |-> y,
     rhos |-> rho, sigmas |-> sigma, ret |-> ret]
Open(v, ret) == [type |-> "Open", iid |-> NilID, value |-> v, ret |-> ret]
ErrorExecution(err, pc) == [type |-> "Error", iid |-> NilID, err |-> err, pc |-> pc]
ErrorUnexpectedInst(inst, pc) == ErrorExecution("unexpected instruction", pc)
ErrorCodeOverflow(pc) == ErrorExecution("code overflow", pc)
ErrorUnexpectedValue(got, expected, pc) == ErrorExecution("unexpected value", pc)
IntentToExit(values) == [type |-> "Exit", iid |-> NilID, values |-> values]

Ready(st) == [st |-> st, ready |-> TRUE, intent |-> NilIntent, panic |-> FALSE]
NotReady(st, intent) == [st |-> st, ready |-> FALSE, intent |-> intent, panic |-> FALSE]
ExecPanic(st) == [st |-> st, ready |-> FALSE, intent |-> NilIntent, panic |-> TRUE]

SetInst_Skip(st, inst) == st

\* prog.Code[prog.PC], read and written through the slice
Inst(st) == st.heap[st.proc.code][st.proc.pc + 1]
SetInst(st, inst) == [st EXCEPT !.heap[st.proc.code][st.proc.pc + 1] = inst]

StackEmpty(st) == Len(st.proc.stack) = 0
Top(st) == st.proc.stack[Len(st.proc.stack)]
Pop(st) == [st EXCEPT !.proc.stack = SubSeq(@, 1, Len(@) - 1)]
Push(st, v) == [st EXCEPT !.proc.stack = Append(@, v)]
\* a step to the next instruction that stays where it is
Advance_Stay(st) == st

\* prog.PC++
Advance(st) == [st EXCEPT !.proc.pc = @ + 1]

\* make(chan, 1): the channel an instruction makes is named by the array, the
\* position and the field that holds it
ChanOf(st, field) == <<st.proc.code, st.proc.pc, field>>
MakeChan(st, ch) == [st EXCEPT !.chans = Put(@, ch, << >>)]
ChanEmpty(chans, ch) == Len(chans[ch]) = 0
ChanRecv_Keep(st, ch) == st
ChanRecv(st, ch) == [st EXCEPT !.chans[ch] = << >>]

\* Value.Add: Public + Public is Public, every sum with a Private is Private
ValueAdd(lhs, rhs) ==
    IF lhs.kind = "Public" /\ rhs.kind = "Public"
    THEN ValuePublic(FAdd(lhs.int, rhs.int))
    ELSE IF lhs.kind = "Private" /\ rhs.kind = "Private"
    THEN ValuePrivate([b \in DOMAIN lhs.share |-> ShareAdd(lhs.share[b], rhs.share[b])])
    ELSE IF lhs.kind = "Private" /\ rhs.kind = "Public"
    THEN ValuePrivate([b \in DOMAIN lhs.share |->
                          ShareNew(lhs.share[b].index, FAdd(lhs.share[b].value, rhs.int))])
    ELSE IF lhs.kind = "Public" /\ rhs.kind = "Private"
    THEN ValuePrivate([b \in DOMAIN rhs.share |->
                          ShareNew(rhs.share[b].index, FAdd(rhs.share[b].value, lhs.int))])
    ELSE lhs

execInstPush(st, inst) == Ready(Advance(Push(st, inst.value)))

execInstAdd(st, inst) ==
    IF StackEmpty(st) THEN NotReady(st, ErrorExecution("stack", st.proc.pc))
    ELSE LET rhs == Top(st)
             st1 == Pop(st)
         IN IF StackEmpty(st1) THEN NotReady(st1, ErrorExecution("stack", st.proc.pc))
            ELSE LET lhs == Top(st1)
                     st2 == Pop(st1)
                 IN IF lhs.kind \notin {"Public", "Private"} THEN ExecPanic(st2)
                    ELSE Ready(Advance(Push(st2, ValueAdd(lhs, rhs))))

execInstRand(st, inst) ==
    IF inst.rhoCh = NilCh \/ inst.sigmaCh = NilCh
    THEN LET rhoCh == ChanOf(st, "rho")
             sigmaCh == ChanOf(st, "sigma")
         IN NotReady(SetInst(MakeChan(MakeChan(st, rhoCh), sigmaCh),
                             [inst EXCEPT !.rhoCh = rhoCh, !.sigmaCh = sigmaCh]),
                     GenRn(rhoCh, sigmaCh))
    ELSE IF ~inst.rhoReady /\ ChanEmpty(st.chans, inst.rhoCh) THEN NotReady(st, NilIntent)
    ELSE LET st1 == IF inst.rhoReady THEN st
                    ELSE SetInst(ChanRecv(st, inst.rhoCh),
                                 [inst EXCEPT !.rhoReady = TRUE,
                                              !.rho = Head(st.chans[inst.rhoCh])])
             inst1 == Inst(st1)
         IN IF ~inst1.sigmaReady /\ ChanEmpty(st1.chans, inst1.sigmaCh)
            THEN NotReady(st1, NilIntent)
            ELSE LET st2 == IF inst1.sigmaReady THEN st1
                            ELSE SetInst(ChanRecv(st1, inst1.sigmaCh),
                                         [inst1 EXCEPT !.sigmaReady = TRUE,
                                                       !.sigma = Head(st1.chans[inst1.sigmaCh])])
                     inst2 == Inst(st2)
                 IN Ready(Advance(Push(st2, ValuePrivateRn(inst2.rho, inst2.sigma))))

\* the end of execInstMul and execInstOpen: poll the channel unless the value
\* was taken before, push the value, advance
AwaitRet(st, inst, wrap(_)) ==
    IF ~inst.retReady /\ ChanEmpty(st.chans, inst.retCh) THEN NotReady(st, NilIntent)
    ELSE LET st1 == IF inst.retReady THEN st
                    ELSE SetInst(ChanRecv(st, inst.retCh),
                                 [inst EXCEPT !.retReady = TRUE,
                                              !.ret = Head(st.chans[inst.retCh])])
         IN Ready(Advance(Push(st1, wrap(Inst(st1).ret))))

execInstMul(st, inst) ==
    IF inst.retCh = NilCh
    THEN IF StackEmpty(st) THEN NotReady(st, ErrorExecution("stack", st.proc.pc))
         ELSE LET rn == Top(st)
                  st1 == Pop(st)
         IN IF rn.kind /= "PrivateRn"
            THEN NotReady(st1, ErrorUnexpectedValue(rn, "PrivateRn", st.proc.pc))
            ELSE IF StackEmpty(st1) THEN NotReady(st1, ErrorExecution("stack", st.proc.pc))
            ELSE LET y == Top(st1)
                     st2 == Pop(st1)
            IN IF y.kind /= "Private"
               THEN NotReady(st2, ErrorUnexpectedValue(y, "Private", st.proc.pc))
               ELSE IF StackEmpty(st2) THEN NotReady(st2, ErrorExecution("stack", st.proc.pc))
               ELSE LET x == Top(st2)
                        st3 == Pop(st2)
                        retCh == ChanOf(st, "ret")
               IN IF x.kind /= "Private"
                  THEN NotReady(st3, ErrorUnexpectedValue(x, "Private", st.proc.pc))
                  ELSE NotReady(SetInst(MakeChan(st3, retCh), [inst EXCEPT !.retCh = retCh]),
                                Multiply(x.share, y.share, rn.rho, rn.sigma, retCh))
    ELSE AwaitRet(st, inst, ValuePrivate)

execInstOpen(st, inst) ==
    IF inst.retCh = NilCh
    THEN IF StackEmpty(st) THEN NotReady(st, ErrorExecution("stack", st.proc.pc))
         ELSE LET v == Top(st)
                  st1 == Pop(st)
                  retCh == ChanOf(st, "ret")
         IN IF v.kind /= "Private"
            THEN NotReady(st1, ErrorUnexpectedValue(v, "Private", st.proc.pc))
            ELSE NotReady(SetInst(MakeChan(st1, retCh), [inst EXCEPT !.retCh = retCh]),
                          Open(v.share, retCh))
    ELSE AwaitRet(st, inst, ValuePublic)

\* Program.Exec: one instruction
Exec(st) ==
    IF st.proc.pc >= Len(st.heap[st.proc.code])
    THEN NotReady(st, ErrorCodeOverflow(st.proc.pc))
    ELSE LET inst == Inst(st)
         IN IF inst.op = "Push" THEN execInstPush(st, inst)
            ELSE IF inst.op = "Add" THEN execInstAdd(st, inst)
            ELSE IF inst.op = "Rand" THEN execInstRand(st, inst)
            ELSE IF inst.op = "Mul" THEN execInstMul(st, inst)
            ELSE IF inst.op = "Open" THEN execInstOpen(st, inst)
            ELSE NotReady(st, ErrorUnexpectedInst(inst, st.proc.pc))

\* the value of a call whose result is used more than once: S is the set that
\* holds it
Once(S) == CHOOSE x \in S : TRUE

\* an intent id without the id of its program
IntentID_NoProgram(proc) == <<0, proc.pc>>

\* the id of an intent: the program id followed by the pc
IntentID(proc) == <<proc.id, proc.pc>>

\* Process.Exec as the dispatcher uses it: instructions run until one does
\* not return Ready; a program whose pc has passed its code with values on
\* its stack exits with them; every intent carries its IntentID
RECURSIVE ProcessExec(_)
ProcessExec(st) ==
    IF st.proc.pc >= Len(st.heap[st.proc.code]) /\ ~StackEmpty(st)
    THEN NotReady(st, [IntentToExit(st.proc.stack) EXCEPT !.iid = IntentID(st.proc)])
    ELSE Once({IF r.panic \/ ~r.ready THEN
                   IF r.intent.type = "nil" THEN r
                   ELSE [r EXCEPT !.intent.iid = IntentID(st.proc)]
               ELSE ProcessExec(r.st) : r \in {Exec(st)}})

(***************************************************************************)
(* The dispatcher.  Its state is the programs and the intents it holds     *)
(* (with the arrays and channels the programs point to); one call of its   *)
(* reducer leaves the state, the message returned and the messages sent to *)
(* the rng, mul and open children.                                         *)
(***************************************************************************)
NewExec(proc) == [type |-> "Exec", proc |-> proc]
NewRemoteProcedureCall(message) == [type |-> "RemoteProcedureCall", message |-> message]
NewVMResult(values) == [type |-> "VMResult", values |-> values]
NewError(err) == [type |-> "Error", err |-> err]

NewGenerateRnTuple(id, batch) == [type |-> "GenerateRnTuple", id |-> id, batch |-> batch]
NewRngResult(id, rhos, sigmas) ==
    [type |-> "RngResult", id |-> id, rhos |-> rhos, sigmas |-> sigmas]
NewRnShares(id) == [type |-> "RnShares", id |-> id]
NewProposeRnShare(id) == [type |-> "ProposeRnShare", id |-> id]
NewSignal(id, value) == [type |-> "Signal", id |-> id, value |-> value]
NewOpen(id, value) == [type |-> "Open", id |-> id, value |-> value]
NewOpenResult(id, value) == [type |-> "OpenResult", id |-> id, value |-> value]

\* the 40 bytes of an intent id are the 40 bytes of the message id; the first
\* 32 are the program id
iidToMsgid(iid) == <<iid[1], iid[2]>>
msgidToIID(msgid) == <<msgid[1], msgid[2]>>
msgidToPid(msgid) == msgid[1]

newVM(heap) == [procs |-> EmptyMap, intents |-> EmptyMap, heap |-> heap, chans |-> EmptyMap]

NoSends == [rng |-> << >>, mul |-> << >>, open |-> << >>]
VMRet(vm, out) == [vm |-> vm, out |-> out, sent |-> NoSends, panic |-> FALSE]
VMSend(vm, child, message) ==
    [vm |-> vm, out |-> << >>, sent |-> [NoSends EXCEPT ![child] = <<message>>],
     panic |-> FALSE]
VMPanic(vm) == [vm |-> vm, out |-> << >>, sent |-> NoSends, panic |-> TRUE]

Register_Skip(vm, intent) == vm

\* vm.intents[intent.IntentID()] = intent
Register(vm, intent) == [vm EXCEPT !.intents = Put(@, intent.iid, intent)]

execIntent(vm, proc, intent) ==
    IF intent.type = "Error" THEN VMRet(vm, <<NewError(intent)>>)
    ELSE IF intent.type = "Exit" THEN VMRet(vm, <<NewVMResult(intent.values)>>)
    ELSE IF intent.type = "GenerateRnTuple"
    THEN VMSend(Register(vm, intent), "rng",
                NewGenerateRnTuple(iidToMsgid(intent.iid), Batch))
    ELSE IF intent.type = "Multiply"
    THEN VMSend(Register(vm, intent), "mul",
                NewMul(iidToMsgid(intent.iid), intent.xs, intent.ys,
                       intent.rhos, intent.sigmas))
    ELSE IF intent.type = "Open"
    THEN VMSend(Register(vm, intent), "open",
                NewSignal(iidToMsgid(intent.iid), intent.value))
    ELSE VMPanic(vm)

\* vm.procs[proc.ID] = proc, then the program runs through the pointer held in
\* the message: what the run changes is the program, its array and its channels
Ran(vm, proc, r) ==
    [vm EXCEPT !.procs = Put(@, proc.id, r.st.proc),
               !.heap = r.st.heap,
               !.chans = r.st.chans]

exec(vm, proc) ==
    Once({IF r.panic THEN VMPanic(Ran(vm, proc, r))
          ELSE IF r.ready
          THEN VMRet(Ran(vm, proc, r), <<NewError("ready after execution")>>)
          ELSE IF r.intent.type = "nil"
          THEN VMRet(Ran(vm, proc, r), <<NewError("no intent after execution")>>)
          ELSE execIntent(Ran(vm, proc, r), r.st.proc, r.intent)
          : r \in {ProcessExec([proc |-> proc, heap |-> vm.heap, chans |-> vm.chans])}})

invoke_AllToMul(vm, message) == VMSend(vm, "mul", message.message)

invoke(vm, message) ==
    IF message.message.type \in {"RnShares", "ProposeRnShare"}
    THEN VMSend(vm, "rng", message.message)
    ELSE IF message.message.type = "OpenMul" THEN VMSend(vm, "mul", message.message)
    ELSE IF message.message.type = "Open" THEN VMSend(vm, "open", message.message)
    ELSE VMPanic(vm)

CanSend_Always(vm, ch) == TRUE

\* select { case ch <- value: ... default: ... } on a channel of capacity 1
CanSend(vm, ch) == ChanEmpty(vm.chans, ch)
ChanSend(vm, ch, value) == [vm EXCEPT !.chans[ch] = <<value>>]

Resume_KeepIntent(vm, msgid) == exec(vm, NewExec(vm.procs[msgidToPid(msgid)]).proc)

\* delete(vm.intents, ...) and vm.exec(NewExec(vm.procs[...]))
Resume(vm, msgid) ==
    exec([vm EXCEPT !.intents = Del(@, msgidToIID(msgid))],
         NewExec(vm.procs[msgidToPid(msgid)]).proc)

\* an answer to a Result without intent that reports it
Ignored_Reported(vm) == VMRet(vm, <<NewError("no intent")>>)

\* if !ok { return nil }: a Result that finds no intent under its id
Ignored(vm) == VMRet(vm, << >>)

recvInternalRngResult(vm, message) ==
    IF msgidToIID(message.id) \notin DOMAIN vm.intents THEN Ignored(vm)
    ELSE LET intent == vm.intents[msgidToIID(message.id)]
         IN IF intent.type = "GenerateRnTuple"
            THEN IF ~CanSend(vm, intent.rhos)
                 THEN VMRet(vm, <<NewError("unavailable intent")>>)
                 ELSE LET vm1 == ChanSend(vm, intent.rhos, message.rhos)
                      IN IF ~CanSend(vm1, intent.sigmas)
                         THEN VMRet(vm1, <<NewError("unavailable intent")>>)
                         ELSE Resume(ChanSend(vm1, intent.sigmas, message.sigmas),
                                     message.id)
            ELSE VMPanic(vm)

recvInternalMulResult(vm, message) ==
    IF msgidToIID(message.id) \notin DOMAIN vm.intents THEN Ignored(vm)
    ELSE LET intent == vm.intents[msgidToIID(message.id)]
         IN IF intent.type = "Multiply"
            THEN IF ~CanSend(vm, intent.ret)
                 THEN VMRet(vm, <<NewError("unavailable intent")>>)
                 ELSE Resume(ChanSend(vm, intent.ret, message.shares), message.id)
            ELSE VMRet(vm, <<NewError("unexpected intent type")>>)

recvInternalOpenResult(vm, message) ==
    IF msgidToIID(message.id) \notin DOMAIN vm.intents THEN Ignored(vm)
    ELSE LET intent == vm.intents[msgidToIID(message.id)]
         IN IF intent.type = "Open"
            THEN IF ~CanSend(vm, intent.ret)
                 THEN VMRet(vm, <<NewError("unavailable intent")>>)
                 ELSE Resume(ChanSend(vm, intent.ret, message.value), message.id)
            ELSE VMRet(vm, <<NewError("unexpected intent type")>>)

VMReduce(vm, message) ==
    IF message.type = "Exec" THEN exec(vm, message.proc)
    ELSE IF message.type = "RemoteProcedureCall" THEN invoke(vm, message)
    ELSE IF message.type \in {"RnShares", "ProposeRnShare", "OpenMul", "Open"}
    THEN VMRet(vm, <<NewRemoteProcedureCall(message)>>)
    ELSE IF message.type = "RngResult" THEN recvInternalRngResult(vm, message)
    ELSE IF message.type = "Result" THEN recvInternalMulResult(vm, message)
    ELSE IF message.type = "OpenResult" THEN recvInternalOpenResult(vm, message)
    ELSE IF message.type = "Error" THEN VMRet(vm, <<NewError(message)>>)
    ELSE VMPanic(vm)

(***************************************************************************)
(* State.                                                                  *)
(***************************************************************************)
VARIABLES
    inp,       \* the inputs of the multiplication (fixed by Init)
    mult,      \* slot -> multiplier
    crashed,   \* the slots whose reducer panicked
    last,      \* the slot and message of the last call of a multiplier's Reduce
    out,       \* the messages that call returned
    emitted,   \* slot -> id -> number of Result messages returned so far
    mulCount,  \* slot -> id -> number of Mul messages received so far
    doneBy,    \* slot -> id -> the type of the message whose step computed the Result
    client,    \* the programs the client built and the arrays they point into (fixed by Init)
    vm,        \* the dispatcher: procs, intents, and the arrays and channels of its programs
    vmCrashed, \* the dispatcher's reducer panicked
    vlast,     \* the message of the last call of the dispatcher's Reduce
    vout,      \* the message that call returned
    vsent,     \* the messages that call sent to the children
    terminals, \* program id -> the Result and Err outputs of the calls that ran the program
    mulBox,    \* the messages sent to the mul child and not yet reduced
    vmBox,     \* the messages the mul child returned, not yet reduced by the dispatcher
    peers,     \* the peers whose OpenMul is yet to arrive
    prog,      \* a program under the interpreter alone, with its array and its sinks
    pret,      \* what the last call of its Exec returned, and the program before the call
    pcalls,    \* the number of calls of its Exec so far
    pemits,    \* the suspending intents those calls returned, in order
    fp,        \* the last call on a prime field, with its argument and outcome
    pedersen,  \* a Pedersen scheme as constructed, and the last calls on it
    vshares    \* the verifiable shares of the last sharing, and what was made of them

mvars == <<inp, mult, crashed, last, out, emitted, mulCount, doneBy>>
vvars == <<client, vm, vmCrashed, vlast, vout, vsent, terminals>>
bvars == <<mulBox, vmBox, peers>>
pvars == <<prog, pret, pcalls, pemits>>
cvars == <<fp, pedersen, vshares>>
vars == <<mvars, vvars, bvars, pvars, cvars>>

NoMsg == [type |-> "none"]
Pids == {1, 2}

Results(msgs, id) == {j \in 1..Len(msgs) : msgs[j].type = "Result" /\ msgs[j].id = id}

\* one call of multiplier.Reduce at slot s
Step(s, message) ==
    /\ s \in DOMAIN mult
    /\ s \notin crashed
    /\ \E r \in {Reduce(mult[s], message)} :
       /\ mult' = [mult EXCEPT ![s] = r.m]
       /\ crashed' = IF r.panic THEN crashed \cup {s} ELSE crashed
       /\ last' = [slot |-> s, msg |-> message]
       /\ out' = r.out
       /\ emitted' = [emitted EXCEPT ![s] =
                         [id \in IDs |-> @[id] + Cardinality(Results(r.out, id))]]
       /\ mulCount' = [mulCount EXCEPT ![s] =
                         [id \in IDs |-> IF message.type = "Mul" /\ message.id = id
                                         THEN @[id] + 1 ELSE @[id]]]
       /\ doneBy' = [doneBy EXCEPT ![s] =
                        [id \in IDs |->
                            IF id \in DOMAIN r.m.results /\ id \notin DOMAIN mult[s].results
                            THEN message.type ELSE @[id]]]
       /\ UNCHANGED inp

\* the program a call of the dispatcher's Reduce runs: the one of an Exec,
\* or the one named by the id of a child's Result that finds its intent
Subject(message) ==
    IF message.type = "Exec" THEN message.proc.id
    ELSE IF /\ message.type \in {"RngResult", "Result", "OpenResult"}
            /\ msgidToIID(message.id) \in DOMAIN vm.intents
    THEN msgidToPid(message.id)
    ELSE 0

Terminal(msgs) ==
    IF Len(msgs) = 0 THEN << >>
    ELSE IF msgs[1].type = "VMResult" THEN <<"Result">>
    ELSE IF msgs[1].type = "Error" THEN <<"Err">>
    ELSE << >>

\* one call of VM.Reduce
VMStep(message) ==
    /\ ~vmCrashed
    /\ \E r \in {VMReduce(vm, message)} :
       /\ vm' = r.vm
       /\ vmCrashed' = r.panic
       /\ vlast' = message
       /\ vout' = r.out
       /\ vsent' = r.sent
       /\ terminals' = IF Subject(message) \in Pids
                       THEN [terminals EXCEPT ![Subject(message)] = @ \o Terminal(r.out)]
                       ELSE terminals
       /\ UNCHANGED client

NoClient == [heap |-> << >>, progs |-> << >>]

InitSlots(indexOf, inputs) ==
    /\ inp \in inputs
    /\ mult = [s \in DOMAIN indexOf |-> newMultiplier(indexOf[s], N, K)]
    /\ crashed = {}
    /\ last = [slot |-> 0, msg |-> NoMsg]
    /\ out = << >>
    /\ emitted = [s \in DOMAIN indexOf |-> [id \in IDs |-> 0]]
    /\ mulCount = [s \in DOMAIN indexOf |-> [id \in IDs |-> 0]]
    /\ doneBy = [s \in DOMAIN indexOf |-> [id \in IDs |-> "none"]]

InitClient(clients) ==
    /\ client \in clients
    /\ vm = newVM(client.heap)
    /\ vmCrashed = FALSE
    /\ vlast = NoMsg
    /\ vout = << >>
    /\ vsent = NoSends
    /\ terminals = [p \in Pids |-> << >>]

InitBoxes(peerSets) ==
    /\ mulBox = << >>
    /\ vmBox = << >>
    /\ peers \in peerSets

NoProg == [proc |-> New(0, 0), heap |-> << >>, chans |-> EmptyMap]
NoRet == [ready |-> FALSE, intent |-> NilIntent, panic |-> FALSE, before |-> NoProg]

InitProg(programs) ==
    /\ prog \in programs
    /\ pret = NoRet
    /\ pcalls = 0
    /\ pemits = << >>

\* no call on the field, the Pedersen scheme or the verifiable shares
NoCall == [op |-> "none"]

InitLibraries ==
    /\ fp = NoCall
    /\ pedersen = NoCall
    /\ vshares = NoCall

(***************************************************************************)
(* One multiplier (participant 1) under an arbitrary network.              *)
(***************************************************************************)
InitMul ==
    /\ InitSlots(<<1>>, LowInputs)
    /\ InitClient({NoClient})
    /\ InitBoxes({{}})
    /\ InitProg({NoProg})
    /\ InitLibraries

DeliverMul ==
    \E id \in IDs, v \in MulVariants :
        /\ mulCount[1][id] < MaxMul
        /\ Step(1, EnvMul(inp, id, mult[1].index, v))
        /\ UNCHANGED <<vvars, bvars, pvars, cvars>>

DeliverOpenMul ==
    \E id \in IDs, from \in Senders :
        \E v \in OpenVariants(from) :
            /\ Step(1, EnvOpenMul(inp, id, from, v))
            /\ UNCHANGED <<vvars, bvars, pvars, cvars>>

DeliverCheckDeadline ==
    /\ Step(1, NewCheckDeadline(1))
    /\ UNCHANGED <<vvars, bvars, pvars, cvars>>

NextMul == DeliverMul \/ DeliverOpenMul \/ DeliverCheckDeadline

SpecMul == InitMul /\ [][NextMul]_vars

(***************************************************************************)
(* One multiplier of any index among honest peers: it is handed its Mul    *)
(* and the OpenMul messages its peers return for theirs, in any order.     *)
(***************************************************************************)
InitHonest ==
    /\ \E i \in 1..N : InitSlots(<<i>>, Inputs)
    /\ InitClient({NoClient})
    /\ InitBoxes({{}})
    /\ InitProg({NoProg})
    /\ InitLibraries

Peers(s) == (1..N) \ {mult[s].index}

RecvMul ==
    \E id \in IDs :
        /\ mulCount[1][id] = 0
        /\ Step(1, EnvMul(inp, id, mult[1].index, "honest"))
        /\ UNCHANGED <<vvars, bvars, pvars, cvars>>

RecvOpenMul ==
    \E id \in IDs :
        \E from \in Peers(1) :
            /\ Step(1, HonestOpenMul(inp, id, from))
            /\ UNCHANGED <<vvars, bvars, pvars, cvars>>

NextHonest == RecvMul \/ RecvOpenMul

SpecHonest == InitHonest /\ [][NextHonest]_vars

(***************************************************************************)
(* The dispatcher under an arbitrary environment: the client execs its     *)
(* programs, and peers and children hand the dispatcher any message.       *)
(***************************************************************************)
\* the shares participant 1 holds of the inputs
PrivateX(in) == ValuePrivate(SharesOf(LAMBDA b : PolyX(in, b), 1))
PrivateY(in) == ValuePrivate(SharesOf(LAMBDA b : PolyY(in, b), 1))
PrivateRn(in) ==
    ValuePrivateRn(SharesOf(LAMBDA b : PolyRho(in, b), 1),
                   SharesOf(LAMBDA b : PolySigma(in, b), 1))

\* Push(x); Push(y); Rand; Mul; Open
CodeRandMulOpen(in) ==
    <<InstPush(PrivateX(in)), InstPush(PrivateY(in)), InstRand, InstMul, InstOpen>>
\* Push(Public 3); Push(Public 4); Add; Open
CodeAddOpen == <<InstPush(ValuePublic(3)), InstPush(ValuePublic(4)), InstAdd, InstOpen>>
\* Push(Public 3); Push(Public 4); Add
CodeAdd == <<InstPush(ValuePublic(3)), InstPush(ValuePublic(4)), InstAdd>>
\* Push(x); Push(y); Push(rn); Mul
CodeMul(in) ==
    <<InstPush(PrivateX(in)), InstPush(PrivateY(in)), InstPush(PrivateRn(in)), InstMul>>

\* two programs: the second is built from the slice of the first, or from a
\* slice of its own
Clients(in) ==
    {[heap |-> <<CodeRandMulOpen(in), code2>>,
      progs |-> [p \in Pids |-> New(p, IF p = 1 THEN 1 ELSE array)]] :
        code2 \in {CodeRandMulOpen(in), CodeAddOpen, CodeAdd}, array \in {1, 2}}

\* the message ids of the instructions that emit intents
MsgIDs == {<<p, pc>> : p \in Pids, pc \in 2..4}

\* what the children hand the dispatcher as the result of id
ChildResults(in, id) ==
    {NewRngResult(id, PrivateRn(in).rho, PrivateRn(in).sigma),
     NewResult(id, PrivateX(in).share),
     NewOpenResult(id, 42)}

\* what the children and the peers exchange through the dispatcher
ProtocolMessages(in) ==
    {HonestOpenMul(in, <<1, 3>>, 2), NewOpen(<<1, 4>>, PrivateX(in).share),
     NewRnShares(<<1, 2>>), NewProposeRnShare(<<1, 2>>)}

InitVM ==
    /\ InitSlots(<<1>>, LowInputs)
    /\ InitClient(Clients(inp))
    /\ InitBoxes({{}})
    /\ InitProg({NoProg})
    /\ InitLibraries

VmExec ==
    \E p \in Pids :
        /\ p \notin DOMAIN vm.procs
        /\ VMStep(NewExec(client.progs[p]))
        /\ UNCHANGED <<mvars, bvars, pvars, cvars>>

VmChildResult ==
    \E id \in MsgIDs :
        \E message \in ChildResults(inp, id) :
            /\ \A p \in Pids : Len(terminals[p]) < MaxTerminals
            /\ VMStep(message)
            /\ UNCHANGED <<mvars, bvars, pvars, cvars>>

VmRemoteProcedureCall ==
    \E message \in ProtocolMessages(inp) :
        /\ VMStep(NewRemoteProcedureCall(message))
        /\ UNCHANGED <<mvars, bvars, pvars, cvars>>

VmChildMessage ==
    \E message \in ProtocolMessages(inp) :
        /\ VMStep(message)
        /\ UNCHANGED <<mvars, bvars, pvars, cvars>>

VmError ==
    /\ VMStep(NewError("child"))
    /\ UNCHANGED <<mvars, bvars, pvars, cvars>>

NextVM == VmExec \/ VmChildResult \/ VmRemoteProcedureCall \/ VmChildMessage \/ VmError

SpecVM == InitVM /\ [][NextVM]_vars

(***************************************************************************)
(* The dispatcher of participant 1 with its mul child: the client execs    *)
(* one program that multiplies, and the OpenMul of every peer that is up   *)
(* arrives once.  Every reducer is scheduled fairly and every message      *)
(* sent is delivered.                                                      *)
(***************************************************************************)
LiveClients(in) == {[heap |-> <<CodeMul(in)>>, progs |-> <<New(1, 1)>>]}

InitLive ==
    /\ InitSlots(<<1>>, Inputs)
    /\ InitClient(LiveClients(inp))
    /\ InitBoxes(SUBSET ((1..N) \ {1}))
    /\ InitProg({NoProg})
    /\ InitLibraries

LiveExec ==
    /\ 1 \notin DOMAIN vm.procs
    /\ VMStep(NewExec(client.progs[1]))
    /\ mulBox' = mulBox \o vsent'.mul
    /\ UNCHANGED <<mvars, vmBox, peers, pvars, cvars>>

LiveVM ==
    /\ Len(vmBox) > 0
    /\ VMStep(Head(vmBox))
    /\ vmBox' = Tail(vmBox)
    /\ mulBox' = mulBox \o vsent'.mul
    /\ UNCHANGED <<mvars, peers, pvars, cvars>>

LiveMul ==
    /\ Len(mulBox) > 0
    /\ Step(1, Head(mulBox))
    /\ mulBox' = Tail(mulBox)
    /\ vmBox' = vmBox \o out'
    /\ UNCHANGED <<vvars, peers, pvars, cvars>>

LivePeer(from) ==
    /\ from \in peers
    /\ VMStep(NewRemoteProcedureCall(HonestOpenMul(inp, <<1, 3>>, from)))
    /\ peers' = peers \ {from}
    /\ mulBox' = mulBox \o vsent'.mul
    /\ UNCHANGED <<mvars, vmBox, pvars, cvars>>

LivePeers == \E from \in 1..N : LivePeer(from)

NextLive == LiveExec \/ LiveVM \/ LiveMul \/ LivePeers

SpecLive ==
    /\ InitLive
    /\ [][NextLive]_vars
    /\ WF_vars(LiveExec)
    /\ WF_vars(LiveVM)
    /\ WF_vars(LiveMul)
    /\ \A from \in 1..N : WF_vars(LivePeer(from))

(***************************************************************************)
(* The dispatcher handed the results of its children while it holds one    *)
(* program suspended on an intent, for every state of the intent's sinks.  *)
(***************************************************************************)
\* Push(x); Push(y); Open
CodeOpen(in) == <<InstPush(PrivateX(in)), InstPush(PrivateY(in)), InstOpen>>

SinkCodes(in) == {CodeRandMulOpen(in), CodeMul(in), CodeOpen(in)}

\* what a full sink holds
Stale(ch) == IF ch[3] = "ret" THEN <<7>> ELSE <<"stale">>

\* the dispatcher after Exec of the program, the sinks in full holding a value
Suspended(code, full) ==
    LET r == exec(newVM(<<code>>), New(1, 1))
    IN [r.vm EXCEPT !.chans = [ch \in DOMAIN @ |-> IF ch \in full THEN Stale(ch) ELSE << >>]]

InitSink ==
    /\ InitSlots(<<1>>, LowInputs)
    /\ InitBoxes({{}})
    /\ InitProg({NoProg})
    /\ InitLibraries
    /\ \E code \in SinkCodes(inp) :
          /\ client = [heap |-> <<code>>, progs |-> <<New(1, 1)>>]
          /\ \E full \in SUBSET DOMAIN Suspended(code, {}).chans :
                vm = Suspended(code, full)
    /\ vmCrashed = FALSE
    /\ vlast = NoMsg
    /\ vout = << >>
    /\ vsent = NoSends
    /\ terminals = [p \in Pids |-> << >>]

NextSink == VmChildResult

SpecSink == InitSink /\ [][NextSink]_vars

(***************************************************************************)
(* The interpreter alone: one program of one instruction on a stack the    *)
(* client built; its caller calls Exec and fills the sinks of the intents  *)
(* it was handed, in any order.                                            *)
(***************************************************************************)
ProgValues(in) == {ValuePublic(3), PrivateX(in), PrivateY(in), PrivateRn(in)}

Stacks(in) == UNION {[1..n -> ProgValues(in)] : n \in 0..MaxStack}

ProgCodes ==
    {<<InstPush(ValuePublic(4))>>, <<InstAdd>>, <<InstRand>>, <<InstMul>>, <<InstOpen>>}

Programs(in) ==
    {[proc |-> [New(1, 1) EXCEPT !.stack = s], heap |-> <<code>>, chans |-> EmptyMap] :
        s \in Stacks(in), code \in ProgCodes}

\* what the caller puts into a sink: shares for Rand and Mul, an integer for Open
SinkValue(in, st, ch) ==
    IF ch[3] = "rho" THEN PrivateRn(in).rho
    ELSE IF ch[3] = "sigma" THEN PrivateRn(in).sigma
    ELSE IF st.heap[ch[1]][ch[2] + 1].op = "Open" THEN 42
    ELSE SharesOf(LAMBDA b : Poly(5, K - 1), 1)

Suspending == {"GenerateRnTuple", "Multiply", "Open"}

InitInterp ==
    /\ InitSlots(<<1>>, LowInputs)
    /\ InitClient({NoClient})
    /\ InitBoxes({{}})
    /\ InitProg(Programs(inp))
    /\ InitLibraries

\* one call of Program.Exec
ProgExec ==
    /\ pcalls < MaxCalls
    /\ ~pret.panic
    /\ \E r \in {Exec(prog)} :
       /\ prog' = r.st
       /\ pret' = [ready |-> r.ready, intent |-> r.intent, panic |-> r.panic,
                   before |-> prog]
       /\ pcalls' = pcalls + 1
       /\ pemits' = IF r.intent.type \in Suspending
                    THEN Append(pemits, [pc |-> prog.proc.pc, type |-> r.intent.type])
                    ELSE pemits
    /\ UNCHANGED <<mvars, vvars, bvars, cvars>>

\* the caller sends on a sink that has room
ProgDeliver ==
    \E ch \in DOMAIN prog.chans :
        /\ ChanEmpty(prog.chans, ch)
        /\ prog' = [prog EXCEPT !.chans[ch] = <<SinkValue(inp, prog, ch)>>]
        /\ UNCHANGED <<pret, pcalls, pemits, mvars, vvars, bvars, cvars>>

NextInterp == ProgExec \/ ProgDeliver

SpecInterp == InitInterp /\ [][NextInterp]_vars

(***************************************************************************)
(* The prime field of the algebra package: a caller asks whether an        *)
(* integer is in the field, or makes a field element of it.                *)
(***************************************************************************)
\* the other prime the field's tests build a field of
SmallPrime == 7

NewField(prime) == [prime |-> prime]

\* a membership test without the test of the sign
Contains_NoLower(field, x) == x < field.prime

\* Fp.Contains: x is not negative and x is less than the prime
Contains(field, x) == x >= 0 /\ x < field.prime

\* Fp.NewInField: the element of the field with value x; panics when the
\* field does not contain x
NewInField(field, x) ==
    IF Contains(field, x)
    THEN [panic |-> FALSE, elem |-> [prime |-> field.prime, value |-> x]]
    ELSE [panic |-> TRUE, elem |-> [prime |-> field.prime, value |-> 0]]

\* the integers the caller tries: negative, in the field, too big
Tried(field) == (0 - SmallPrime)..(field.prime + SmallPrime)

InitField ==
    /\ InitSlots(<<1>>, LowInputs)
    /\ InitClient({NoClient})
    /\ InitBoxes({{}})
    /\ InitProg({NoProg})
    /\ fp \in {[op |-> "NewField", field |-> NewField(prime)] : prime \in {SmallPrime, Q}}
    /\ pedersen = NoCall
    /\ vshares = NoCall

FieldContains ==
    \E x \in Tried(fp.field) :
        /\ fp' = [op |-> "Contains", field |-> fp.field, x |-> x,
                  ret |-> Contains(fp.field, x)]
        /\ UNCHANGED <<mvars, vvars, bvars, pvars, pedersen, vshares>>

FieldNewInField ==
    \E x \in Tried(fp.field) :
        /\ fp' = [op |-> "NewInField", field |-> fp.field, x |-> x,
                  ret |-> NewInField(fp.field, x)]
        /\ UNCHANGED <<mvars, vvars, bvars, pvars, pedersen, vshares>>

NextField == FieldContains \/ FieldNewInField

SpecField == InitField /\ [][NextField]_vars

(***************************************************************************)
(* Pedersen commitments (pedersen package): a caller constructs a scheme   *)
(* from p, q, g, h, commits to pairs and verifies commitments.             *)
(***************************************************************************)
\* the first entry of the tests' table of schemes; its q is Q
PedP == 503
PedG == 351
PedH == 8

\* *big.Int: nil, or an integer
NilInt == [nil |-> TRUE, int |-> 0]
BigInt(x) == [nil |-> FALSE, int |-> x]

RECURSIVE ModPow(_, _, _)
\* b^e mod m by square and multiply
ModPow(b, e, m) ==
    IF e = 0 THEN 1 % m
    ELSE IF e % 2 = 0 THEN ModPow((b * b) % m, e \div 2, m)
    ELSE ((b % m) * ModPow((b * b) % m, e \div 2, m)) % m

\* a test of the generators that accepts every integer
InSubgroup_Any(p, q, x) == TRUE

\* x is a generator of the subgroup of order q of (Z/pZ)*
InSubgroup(p, q, x) == ModPow(x, q, p) = 1 /\ x % p /= 1

\* the scheme a failed construction returns beside its error
ZeroScheme(err) == [err |-> err, p |-> NilInt, q |-> NilInt, g |-> NilInt, h |-> NilInt]

\* pedersen.New(p, q, g, h)
NewPedersen(p, q, g, h) ==
    IF p.nil \/ q.nil \/ g.nil \/ h.nil THEN ZeroScheme("nil arguments")
    ELSE IF (p.int - 1) % q.int /= 0 THEN ZeroScheme("q does not divide p - 1")
    ELSE IF ~InSubgroup(p.int, q.int, g.int) \/ ~InSubgroup(p.int, q.int, h.int)
    THEN ZeroScheme("generator not in the subgroup")
    ELSE [err |-> "nil", p |-> p, q |-> q, g |-> g, h |-> h]

\* a commitment that adds the two powers
Commit_Sum(ped, s, t) ==
    IF s.nil \/ t.nil THEN NilInt
    ELSE BigInt((ModPow(ped.g.int, s.int, ped.p.int)
                 + ModPow(ped.h.int, t.int, ped.p.int)) % ped.p.int)

\* Pedersen.Commit(s, t) = g^s h^t mod p; nil when s or t is nil
Commit(ped, s, t) ==
    IF s.nil \/ t.nil THEN NilInt
    ELSE BigInt((ModPow(ped.g.int, s.int, ped.p.int)
                 * ModPow(ped.h.int, t.int, ped.p.int)) % ped.p.int)

\* a verification that tests for nil after it has compared
PedVerify_NilLast(ped, s, t, commitment) ==
    IF Commit(ped, s, t) = commitment THEN "nil"
    ELSE IF s.nil \/ t.nil \/ commitment.nil THEN "ErrNilArguments"
    ELSE "ErrUnacceptableCommitment"

\* Pedersen.Verify(s, t, commitment)
PedVerify(ped, s, t, commitment) ==
    IF s.nil \/ t.nil \/ commitment.nil THEN "ErrNilArguments"
    ELSE IF Commit(ped, s, t).int = commitment.int THEN "nil"
    ELSE "ErrUnacceptableCommitment"

\* the entry of the table, and a scheme of 11 elements in (Z/23Z)*
Entries ==
    {[p |-> BigInt(PedP), q |-> BigInt(Q), g |-> BigInt(PedG), h |-> BigInt(PedH)],
     [p |-> BigInt(23), q |-> BigInt(11), g |-> BigInt(2), h |-> BigInt(3)]}

\* an entry with any of its four integers nil
WithNils(entry) ==
    {[p |-> IF "p" \in nils THEN NilInt ELSE entry.p,
      q |-> IF "q" \in nils THEN NilInt ELSE entry.q,
      g |-> IF "g" \in nils THEN NilInt ELSE entry.g,
      h |-> IF "h" \in nils THEN NilInt ELSE entry.h] : nils \in SUBSET {"p", "q", "g", "h"}}

\* an entry whose p was perturbed by a non-zero integer below q
PerturbedP(entry) ==
    {[entry EXCEPT !.p = BigInt(entry.p.int + r)] : r \in {1, 2, entry.q.int - 1}}

\* an entry whose g or h is 1, or an integer of order 2q (5 is no square
\* modulo 503 or 23)
BadGenerator(entry) ==
    {[entry EXCEPT ![x] = BigInt(y)] : x \in {"g", "h"}, y \in {1, 5}}

SchemeArgs ==
    UNION {WithNils(entry) \cup PerturbedP(entry) \cup BadGenerator(entry) :
              entry \in Entries}

\* the exponents the caller commits to
Exponents(ped) ==
    {BigInt(x) : x \in {y \in {0, 50, 80, 100, 200, ped.q.int - 1} : y < ped.q.int}}
        \cup {NilInt}

NoCommit == [s |-> NilInt, t |-> NilInt, ret |-> NilInt]

InitPedersen ==
    /\ InitSlots(<<1>>, LowInputs)
    /\ InitClient({NoClient})
    /\ InitBoxes({{}})
    /\ InitProg({NoProg})
    /\ fp = NoCall
    /\ pedersen = NoCall
    /\ vshares = NoCall

PedersenNew ==
    /\ pedersen.op = "none"
    /\ \E args \in SchemeArgs :
          pedersen' = [op |-> "New", args |-> args,
                       ped |-> NewPedersen(args.p, args.q, args.g, args.h)]
    /\ UNCHANGED <<mvars, vvars, bvars, pvars, fp, vshares>>

\* the commitment of the last call, if that call was a Commit
LastCommit ==
    IF pedersen.op = "Commit"
    THEN [s |-> pedersen.s, t |-> pedersen.t, ret |-> pedersen.ret]
    ELSE NoCommit

PedersenCommit ==
    /\ pedersen.op \in {"New", "Commit", "Verify"}
    /\ pedersen.ped.err = "nil"
    /\ \E s, t \in Exponents(pedersen.ped) :
          pedersen' = [op |-> "Commit", ped |-> pedersen.ped, s |-> s, t |-> t,
                       ret |-> Commit(pedersen.ped, s, t), prev |-> LastCommit]
    /\ UNCHANGED <<mvars, vvars, bvars, pvars, fp, vshares>>

\* the commitments handed to Verify: nil, the last one, the last one
\* perturbed, and commitments to other pairs
Commitments(ped) ==
    {NilInt, LastCommit.ret} \cup
    {BigInt(LastCommit.ret.int + r) : r \in {1, ped.q.int - 1}} \cup
    {Commit(ped, s, t) : s, t \in {BigInt(0), BigInt(1)}}

PedersenVerify ==
    /\ pedersen.op \in {"New", "Commit", "Verify"}
    /\ pedersen.ped.err = "nil"
    /\ \E s \in {LastCommit.s, NilInt, BigInt(1)} :
       \E t \in {LastCommit.t, NilInt} :
       \E c \in Commitments(pedersen.ped) :
          pedersen' = [op |-> "Verify", ped |-> pedersen.ped, s |-> s, t |-> t,
                       commitment |-> c, ret |-> PedVerify(pedersen.ped, s, t, c)]
    /\ UNCHANGED <<mvars, vvars, bvars, pvars, fp, vshares>>

NextPedersen == PedersenNew \/ PedersenCommit \/ PedersenVerify

SpecPedersen == InitPedersen /\ [][NextPedersen]_vars

(***************************************************************************)
(* Verifiable secret sharing (vss package) over F_q with the scheme        *)
(* (503, 251, 351, 8): a dealer shares a secret, and the shares are        *)
(* verified, tampered with, or added to the shares of a second secret.     *)
(***************************************************************************)
\* the scheme of the tests' first table entry
TablePed == NewPedersen(BigInt(PedP), BigInt(Q), BigInt(PedG), BigInt(PedH))

\* commitments to the coefficients of f alone
VssCommitments_NoBlinding(ped, f, r) ==
    [j \in 1..Len(f) |-> Commit(ped, BigInt(f[j]), BigInt(0)).int]

\* C_j = g^(a_j) h^(b_j) for the coefficients a_j of f and b_j of r
VssCommitments(ped, f, r) ==
    [j \in 1..Len(f) |-> Commit(ped, BigInt(f[j]), BigInt(r[j])).int]

\* vss.Share(ped, secret, n, k) with the randomness it drew: the blinding
\* and the coefficients a and b of the two polynomials
VShare(ped, secret, blind, a, b, n) ==
    LET f == <<secret>> \o a
        r == <<blind>> \o b
        commitments == VssCommitments(ped, f, r)
    IN [i \in 1..n |-> [share |-> ShareNew(i, Eval(f, i)),
                        rshare |-> ShareNew(i, Eval(r, i)),
                        commitments |-> commitments]]

RECURSIVE ModProd(_, _, _)
\* the product mod p of f[1..n]
ModProd(f, n, p) == IF n = 0 THEN 1 % p ELSE (f[n] * ModProd(f, n - 1, p)) % p

\* a verification that compares the indices of the two shares only
VssVerify_IndexOnly(ped, vs) ==
    [panic |-> Len(vs.commitments) = 0, ok |-> vs.share.index = vs.rshare.index]

\* vss.Verify(ped, vshare): g^s h^r against the product of the C_j^(i^j);
\* panics on an empty commitment vector
VssVerify(ped, vs) ==
    IF Len(vs.commitments) = 0 THEN [panic |-> TRUE, ok |-> FALSE]
    ELSE LET i == vs.share.index
             expected ==
                 ModProd([j \in 1..Len(vs.commitments) |->
                             ModPow(vs.commitments[j], ModPow(i, j - 1, ped.q.int),
                                    ped.p.int)],
                         Len(vs.commitments), ped.p.int)
         IN [panic |-> FALSE,
             ok |-> Commit(ped, BigInt(vs.share.value), BigInt(vs.rshare.value)).int
                        = expected]

\* an addition that keeps the commitments of the left share
VssAdd_KeepCommitments(ped, a, b) ==
    [share |-> ShareAdd(a.share, b.share),
     rshare |-> ShareAdd(a.rshare, b.rshare),
     commitments |-> a.commitments]

\* VShare.Add: both inner shares added, the commitments multiplied pointwise
VssAdd(ped, a, b) ==
    [share |-> ShareAdd(a.share, b.share),
     rshare |-> ShareAdd(a.rshare, b.rshare),
     commitments |-> [j \in 1..Len(a.commitments) |->
                         (a.commitments[j] * b.commitments[j]) % ped.p.int]]

\* the largest number of shares and the largest threshold of a sharing
MaxShares == 5
MaxThreshold == 3

\* the secrets shared, what the dealer draws its coefficients from, and
\* what a share is perturbed by
Secrets == {17, Q - 1}
Coefficients == {1, Q - 1}
Perturbations == {1, 2, Q \div 2, Q - 1}

InitVss ==
    /\ InitSlots(<<1>>, LowInputs)
    /\ InitClient({NoClient})
    /\ InitBoxes({{}})
    /\ InitProg({NoProg})
    /\ fp = NoCall
    /\ pedersen = NoCall
    /\ vshares = NoCall

\* Verify on every share, as the tests call it after each step
Verified(shares) == [i \in DOMAIN shares |-> VssVerify(TablePed, shares[i])]

VssShare ==
    /\ vshares.op = "none"
    /\ \E secret \in Secrets, blind \in Coefficients, k \in 2..MaxThreshold :
       \E n \in k..MaxShares, a, b \in [1..(k - 1) -> Coefficients] :
       \E shares \in {VShare(TablePed, secret, blind, a, b, n)} :
          vshares' = [op |-> "Share", secret |-> secret, n |-> n, k |-> k,
                      shares |-> shares, verified |-> Verified(shares)]
    /\ UNCHANGED <<mvars, vvars, bvars, pvars, fp, pedersen>>

\* share i with r added to the value of its inner share
Tampered(shares, i, r) ==
    [shares EXCEPT ![i].share = ShareAdd(@, ShareNew(@.index, r))]

VssTamper ==
    /\ vshares.op = "Share"
    /\ \E i \in 1..vshares.n, r \in Perturbations :
       \E shares \in {Tampered(vshares.shares, i, r)} :
          vshares' = [op |-> "Tamper", secret |-> vshares.secret, n |-> vshares.n,
                      k |-> vshares.k, shares |-> shares, verified |-> Verified(shares),
                      i |-> i, r |-> r]
    /\ UNCHANGED <<mvars, vvars, bvars, pvars, fp, pedersen>>

\* a second sharing with the n and k of the first, every coefficient c
Second(secret, c, n, k) ==
    VShare(TablePed, secret, c, [j \in 1..(k - 1) |-> c], [j \in 1..(k - 1) |-> c], n)

VssAddShares ==
    /\ vshares.op = "Share"
    /\ \E secretB \in Secrets, c \in Coefficients :
       \E sharesB \in {Second(secretB, c, vshares.n, vshares.k)} :
       \E shares \in {[i \in 1..vshares.n |->
                          VssAdd(TablePed, vshares.shares[i], sharesB[i])]} :
          vshares' = [op |-> "Add", secret |-> vshares.secret, n |-> vshares.n,
                      k |-> vshares.k, shares |-> shares, verified |-> Verified(shares),
                      secretB |-> secretB]
    /\ UNCHANGED <<mvars, vvars, bvars, pvars, fp, pedersen>>

NextVss == VssShare \/ VssTamper \/ VssAddShares

SpecVss == InitVss /\ [][NextVss]_vars

(***************************************************************************)
(* Properties of one multiplier (SpecMul).                                 *)
(***************************************************************************)
\* the messages stored for id once the step has inserted the one it processed
\* (for a Mul, the multiplier's own OpenMul, the last message it returns)
StoredAfter(s, id) ==
    LET pre == IF id \in DOMAIN mult[s].opens THEN mult[s].opens[id] ELSE EmptyMap
        new == IF last'.msg.type = "Mul" THEN out'[Len(out')] ELSE last'.msg
    IN Put(pre, new.from, new)

Pending(s, id) == id \in DOMAIN mult[s].muls /\ id \notin DOMAIN mult[s].results

HasResult(msgs, id) == Results(msgs, id) /= {}

C6_NoResultBeforeMul ==
    /\ [](\A id \in IDs :
            mulCount[1][id] = 0 =>
                emitted[1][id] = 0 /\ id \notin DOMAIN mult[1].results)
    /\ [][\A id \in IDs :
            /\ (mulCount[1][id] = 0 /\ last'.msg.type = "OpenMul" /\ last'.msg.id = id) =>
                  /\ out' = << >>
                  /\ mult'[1].opens[id] = StoredAfter(1, id)
            /\ (/\ mulCount[1][id] = 0
                /\ last'.msg.type = "Mul" /\ last'.msg.id = id
                /\ 1 \notin crashed'
                /\ Cardinality(DOMAIN StoredAfter(1, id)) >= K) =>
                  /\ HasResult(out', id)
                  /\ \A b \in 1..Batch :
                        FAdd(out'[1].shares[b].value, last'.msg.sigmas[b].value)
                            = Join([f \in DOMAIN StoredAfter(1, id) |->
                                       StoredAfter(1, id)[f].shares[b]])
       ]_vars

\* the first Mul found K - 1 other senders stored and emitted the Result
C6_Witness ==
    \E id \in IDs :
        /\ mulCount[1][id] = 1
        /\ last.msg.type = "Mul"
        /\ HasResult(out, id)
        /\ doneBy[1][id] = "Mul"

\* C7: a Result is computed only from OpenMul messages of at least K distinct
\* senders carrying at least K pairwise distinct share indices, and an
\* OpenMul of a sender already stored leaves the number of senders unchanged.
C7_QuorumOfDistinctSenders ==
    [][\A id \in IDs :
          /\ (id \notin DOMAIN mult[1].results /\ id \in DOMAIN mult'[1].results) =>
                /\ Cardinality(DOMAIN StoredAfter(1, id)) >= K
                /\ \A b \in 1..Batch :
                      Cardinality({StoredAfter(1, id)[f].shares[b].index :
                                      f \in DOMAIN StoredAfter(1, id)}) >= K
          /\ HasResult(out', id) => id \in DOMAIN mult'[1].results
          /\ (/\ last'.msg.type = "OpenMul" /\ last'.msg.id = id
              /\ id \in DOMAIN mult[1].opens
              /\ last'.msg.from \in DOMAIN mult[1].opens[id]) =>
                /\ id \in DOMAIN mult'[1].opens
                /\ DOMAIN mult'[1].opens[id] = DOMAIN mult[1].opens[id]
                /\ ~HasResult(out', id)
      ]_vars

\* a forged OpenMul in the name of the multiplier itself arrived while its
\* own share was the only one stored: still one sender, no Result
C7_Witness ==
    \E id \in IDs :
        /\ Pending(1, id)
        /\ last.msg.type = "OpenMul" /\ last.msg.from = mult[1].index
        /\ last.msg /= HonestOpenMul(inp, id, mult[1].index)
        /\ DOMAIN mult[1].opens[id] = {mult[1].index}
        /\ emitted[1][id] = 0

\* C8: a CheckDeadline that finds an id with its Mul but fewer than K
\* senders makes the multiplier emit Err(id) and discard the id's state.
C8_DeadlineEmitsErr ==
    [][\A id \in IDs :
          (/\ last'.msg.type = "CheckDeadline"
           /\ Pending(1, id)
           /\ Cardinality(DOMAIN mult[1].opens[id]) < K) =>
              /\ \E j \in 1..Len(out') : out'[j].type = "Err" /\ out'[j].id = id
              /\ id \notin DOMAIN mult'[1].muls
              /\ id \notin DOMAIN mult'[1].opens
              /\ 1 \notin crashed'
      ]_vars

(***************************************************************************)
(* Properties of a multiplier among honest peers (SpecHonest).             *)
(***************************************************************************)
\* the multiplier after the OpenMul messages of froms, in ascending order
RECURSIVE FeedOpens(_, _, _, _)
FeedOpens(m, in, id, froms) ==
    IF froms = {} THEN m
    ELSE LET f == CHOOSE f \in froms : \A g \in froms : f <= g
         IN FeedOpens(tryOpenMul(m, HonestOpenMul(in, id, f)).m, in, id, froms \ {f})

\* the Result participant i emits when the OpenMul messages of all its peers
\* arrive before its Mul
RefResult(in, id, i) ==
    mul(FeedOpens(newMultiplier(i, N, K), in, id, (1..N) \ {i}),
        EnvMul(in, id, i, "honest")).out[1]

\* the sharings the specification prescribes: x, y and rho of degree K - 1,
\* sigma of degree 2 * (K - 1)
Prescribed(in) ==
    in.dx = K - 1 /\ in.dy = K - 1 /\ in.drho = K - 1 /\ in.dsig = 2 * (K - 1)

Product(in, b) == FMul((in.x + (b - 1)) % Q, (in.y + (b - 1)) % Q)
Masked(in, b) == FAdd(Product(in, b), (in.r + (b - 1)) % Q)

\* C2: with the prescribed sharings, any K of the Result shares the
\* participants emit interpolate at 0 to x * y (this participant's share as
\* it emitted it in this run, each peer's as it emits it when its peers'
\* OpenMul messages precede its Mul).
C2_ResultsShareProduct ==
    \A id \in IDs :
        (Prescribed(inp) /\ id \in DOMAIN mult[1].results) =>
            \A S \in SUBSET (1..N) :
                (Cardinality(S) = K /\ mult[1].index \in S) =>
                    \A b \in 1..Batch :
                        Join([j \in S |->
                                IF j = mult[1].index
                                THEN mult[1].results[id].shares[b]
                                ELSE RefResult(inp, id, j).shares[b]])
                            = Product(inp, b)

\* C3: with x, y and rho shared at degree K - 1, the value the multiplier
\* interpolates for each batch position (its Result share plus its sigma
\* share) is x * y + r, whichever K senders were stored.
C3_InterpolatesMaskedProduct ==
    \A id \in IDs :
        (/\ inp.dx = K - 1 /\ inp.dy = K - 1 /\ inp.drho = K - 1
         /\ id \in DOMAIN mult[1].results) =>
            \A b \in 1..Batch :
                FAdd(mult[1].results[id].shares[b].value,
                     Eval(PolySigma(inp, b), mult[1].index)) = Masked(inp, b)

\* C4 (emission step): the Result is emitted in the first step after which
\* both the Mul and K distinct senders are present, and in no earlier step.
C4_EmittedAtLaterOfBoth ==
    [][\A id \in IDs :
          (emitted[1][id] = 0 /\ last'.msg.id = id) =>
              (HasResult(out', id) <=>
                  /\ mulCount'[1][id] >= 1
                  /\ Cardinality(DOMAIN StoredAfter(1, id)) >= K)
      ]_vars

\* C4 (same Result in every order): whatever the arrival order of the Mul
\* and the peers' OpenMul messages, the Result is the one of the order in
\* which every OpenMul precedes the Mul.
C4_SameResultInEveryOrder ==
    \A id \in IDs :
        id \in DOMAIN mult[1].results =>
            mult[1].results[id] = RefResult(inp, id, mult[1].index)

(***************************************************************************)
(* Properties of the dispatcher (SpecVM, SpecLive).                        *)
(***************************************************************************)
ResultTypes == {"RngResult", "Result", "OpenResult"}

\* C1: for every program, the dispatcher outputs at most one terminal
\* message (a Result or an Err), over any sequence of messages.
C1_AtMostOneTerminal ==
    \A p \in Pids : Len(terminals[p]) <= 1

\* a program for which the dispatcher output an Err and then a Result
C1_ErrThenResult ==
    \E p \in Pids : terminals[p] = <<"Err", "Result">>

\* nothing is left to schedule or to deliver: the program was given to the
\* dispatcher, both inboxes are empty and every peer that is up has sent
Quiescent ==
    /\ 1 \in DOMAIN vm.procs
    /\ Len(mulBox) = 0
    /\ Len(vmBox) = 0
    /\ peers = {}

\* C9: no program terminates silently.  A fair behaviour that reaches a
\* quiescent state stays in it forever, so every program given to the
\* dispatcher has its Result or its Err by then.
C9_NoSilentTermination ==
    Quiescent => \A p \in DOMAIN vm.procs : Len(terminals[p]) > 0

\* the intents the dispatcher holds for program p
IntentsOf(v, p) == [iid \in {i \in DOMAIN v.intents : i[1] = p} |-> v.intents[iid]]

\* C10: a program's Exec returns and sends what it does when the program
\* runs alone, and a child's Result for one program leaves the stack, pc,
\* instructions and intents of every other program as they were.
C10_NoContamination ==
    [][\A p \in Pids :
          /\ (vlast'.type = "Exec" /\ Subject(vlast') = p) =>
                /\ vout' = exec(newVM(client.heap), client.progs[p]).out
                /\ vsent' = exec(newVM(client.heap), client.progs[p]).sent
          /\ (vlast'.type \in ResultTypes /\ Subject(vlast') = p) =>
                \A q \in (DOMAIN vm.procs) \ {p} :
                    /\ vm'.procs[q] = vm.procs[q]
                    /\ vm'.heap[vm.procs[q].code] = vm.heap[vm.procs[q].code]
                    /\ IntentsOf(vm', q) = IntentsOf(vm, q)
      ]_vars

\* C10 for programs built from slices of their own
C10_NoContaminationOwnCode ==
    [][\A p \in Pids :
          (\A q \in Pids \ {p} : client.progs[q].code /= client.progs[p].code) =>
          /\ (vlast'.type = "Exec" /\ Subject(vlast') = p) =>
                /\ vout' = exec(newVM(client.heap), client.progs[p]).out
                /\ vsent' = exec(newVM(client.heap), client.progs[p]).sent
          /\ (vlast'.type \in ResultTypes /\ Subject(vlast') = p) =>
                \A q \in (DOMAIN vm.procs) \ {p} :
                    /\ vm'.procs[q] = vm.procs[q]
                    /\ vm'.heap[vm.procs[q].code] = vm.heap[vm.procs[q].code]
                    /\ IntentsOf(vm', q) = IntentsOf(vm, q)
      ]_vars

(***************************************************************************)
(* Properties of the dispatcher's handlers (SpecVM).                       *)
(***************************************************************************)
\* the step ran a program: it reduced an Exec, or the result of a child that
\* found its intent, of its kind
Resumes(message) ==
    /\ message.type \in {"RngResult", "Result", "OpenResult"}
    /\ msgidToIID(message.id) \in DOMAIN vm.intents
    /\ vm.intents[msgidToIID(message.id)].type =
           (IF message.type = "RngResult" THEN "GenerateRnTuple"
            ELSE IF message.type = "Result" THEN "Multiply" ELSE "Open")

Runs(message) == message.type = "Exec" \/ Resumes(message)

\* the intents the step starts the run with
IntentsBefore(message) ==
    IF message.type = "Exec" THEN vm.intents ELSE Del(vm.intents, msgidToIID(message.id))

\* the message execIntent sends for an intent of the instruction op, and the child
Forwarded(op, intent) ==
    IF op = "Rand" /\ intent.type = "GenerateRnTuple"
    THEN [NoSends EXCEPT !.rng = <<NewGenerateRnTuple(iidToMsgid(intent.iid), Batch)>>]
    ELSE IF op = "Mul" /\ intent.type = "Multiply"
    THEN [NoSends EXCEPT !.mul = <<NewMul(iidToMsgid(intent.iid), intent.xs, intent.ys,
                                          intent.rhos, intent.sigmas)>>]
    ELSE IF op = "Open" /\ intent.type = "Open"
    THEN [NoSends EXCEPT !.open = <<NewSignal(iidToMsgid(intent.iid), intent.value)>>]
    ELSE [rng |-> << >>, mul |-> << >>, open |-> << >>, none |-> TRUE]

\* the instruction has made its sinks
Waiting(inst) ==
    \/ inst.op = "Rand" /\ inst.rhoCh /= NilCh
    \/ inst.op \in {"Mul", "Open"} /\ inst.retCh /= NilCh

Sinks(intent) ==
    IF intent.type = "GenerateRnTuple" THEN {intent.rhos, intent.sigmas} ELSE {intent.ret}

\* the instruction holds the values of the result as taken from its sinks
Took(inst, message) ==
    IF message.type = "RngResult"
    THEN /\ inst.rhoReady /\ inst.rho = message.rhos
         /\ inst.sigmaReady /\ inst.sigma = message.sigmas
    ELSE IF message.type = "Result" THEN inst.retReady /\ inst.ret = message.shares
    ELSE inst.retReady /\ inst.ret = message.value

\* C12: an intent is registered only by the run that emits it and removed
\* only by the result of its kind that carries its id; that step removes it,
\* hands the values of the result to the instruction through its sinks and
\* runs the program on, past the instruction, within the same step.
C12_OutstandingUntilResult ==
    [][/\ \A iid \in DOMAIN vm'.intents \ DOMAIN vm.intents :
             Runs(vlast') /\ iid = IntentID(vm'.procs[Subject(vlast')])
       /\ \A iid \in DOMAIN vm.intents \ DOMAIN vm'.intents :
             Resumes(vlast') /\ iid = msgidToIID(vlast'.id)
       /\ (Resumes(vlast') /\ ~vmCrashed') =>
             LET iid == msgidToIID(vlast'.id)
                 intent == vm.intents[iid]
                 p == vm.procs[msgidToPid(vlast'.id)]
             IN /\ \A ch \in Sinks(intent) : ChanEmpty(vm.chans, ch)
                /\ iid \notin DOMAIN vm'.intents
                /\ p.pc = iid[2]
                /\ Took(vm'.heap[p.code][p.pc + 1], vlast')
                /\ \A ch \in Sinks(intent) : ChanEmpty(vm'.chans, ch)
                /\ vm'.procs[p.id].pc > p.pc]_vars

\* the mul child's Result found the Multiply intent of program 1: the intent
\* is gone, the Mul instruction holds the shares, the program stands at its
\* Open with the intent of the Open registered
C12_Witness ==
    /\ vlast.type = "Result"
    /\ 1 \in DOMAIN vm.procs
    /\ vm.procs[1].pc = 4
    /\ vm.heap[vm.procs[1].code][4].ret = vlast.shares
    /\ DOMAIN vm.intents = {<<1, 4>>}

(***************************************************************************)
(* Properties of the dispatcher's handlers on every state of the sinks     *)
(* (SpecSink).                                                             *)
(***************************************************************************)
\* the channels after the sends the handler made before it found a full one
\* (an rng.Result fills an empty rho sink before it finds the sigma sink full)
SentBeforeFull(intent, message) ==
    IF intent.type = "GenerateRnTuple" /\ ChanEmpty(vm.chans, intent.rhos)
    THEN [vm.chans EXCEPT ![intent.rhos] = <<message.rhos>>]
    ELSE vm.chans

\* C13: a result of its kind for a registered intent one of whose sinks is
\* full makes the dispatcher return Error("unavailable intent"): it sends
\* nothing to a child, keeps the intent, and does not run the program (its
\* pc, stack and instructions are as before); no value is put into a full sink.
C13_FullSinkIsError ==
    [][(Resumes(vlast') /\ \E ch \in Sinks(vm.intents[msgidToIID(vlast'.id)]) :
                               ~ChanEmpty(vm.chans, ch)) =>
          /\ ~vmCrashed'
          /\ Len(vout') = 1
          /\ vout'[1].type = "Error"
          /\ vout'[1].err = "unavailable intent"
          /\ vsent' = NoSends
          /\ vm'.intents = vm.intents
          /\ vm'.procs = vm.procs
          /\ vm'.heap = vm.heap
          /\ vm'.chans = SentBeforeFull(vm.intents[msgidToIID(vlast'.id)], vlast')]_vars

\* the mul child's Result found the sink of the registered Multiply intent
\* full: Error returned, the intent still registered, the program still at
\* its Mul
C13_Witness ==
    /\ vlast.type = "Result"
    /\ vout = <<NewError("unavailable intent")>>
    /\ msgidToIID(vlast.id) \in DOMAIN vm.intents
    /\ vm.intents[msgidToIID(vlast.id)].type = "Multiply"
    /\ vm.chans[vm.intents[msgidToIID(vlast.id)].ret] = Stale(<<1, 3, "ret">>)
    /\ vm.procs[1].pc = 3

(***************************************************************************)
(* The life of a program in the dispatcher (SpecVM).                       *)
(***************************************************************************)
\* the last step was an Exec whose program yielded Exit or Error
EndedByExec ==
    /\ vlast.type = "Exec"
    /\ Len(vout) = 1
    /\ vout[1].type \in {"VMResult", "Error"}
    /\ LET p == vm.procs[vlast.proc.id]
           code == vm.heap[p.code]
       IN ~(p.pc < Len(code) /\ Waiting(code[p.pc + 1]))

\* C14: once a program has yielded Exit or Error the dispatcher's map of
\* programs no longer holds it.
C14_DestroyedOnEnd ==
    /\ EndedByExec => vlast.proc.id \notin DOMAIN vm.procs
    /\ \A p \in Pids :
          (\E i \in 1..Len(terminals[p]) : terminals[p][i] = "Result") =>
              p \notin DOMAIN vm.procs

(***************************************************************************)
(* Routing of the protocol messages (SpecVM).                              *)
(***************************************************************************)
ProtocolTypes == {"RnShares", "ProposeRnShare", "OpenMul", "Open"}

ChildFor(type) ==
    IF type \in {"RnShares", "ProposeRnShare"} THEN "rng"
    ELSE IF type = "OpenMul" THEN "mul" ELSE "open"

\* C15: a RemoteProcedureCall carrying an RnShares, ProposeRnShare, OpenMul or
\* Open is sent, as it is, to the rng, rng, mul or open child and to no other,
\* with nothing output; an RnShares, ProposeRnShare, OpenMul or Open of a
\* child is output as a RemoteProcedureCall carrying it, with nothing sent;
\* neither changes the programs or the intents.
C15_RoutedByPayload ==
    [][/\ (vlast'.type = "RemoteProcedureCall" /\ vlast'.message.type \in ProtocolTypes) =>
             /\ ~vmCrashed'
             /\ vout' = << >>
             /\ vsent' = [NoSends EXCEPT ![ChildFor(vlast'.message.type)] = <<vlast'.message>>]
             /\ vm' = vm
       /\ vlast'.type \in ProtocolTypes =>
             /\ ~vmCrashed'
             /\ vout' = <<NewRemoteProcedureCall(vlast')>>
             /\ vsent' = NoSends
             /\ vm' = vm]_vars

\* a peer's Open arrived in a RemoteProcedureCall while a program was
\* suspended, and went to the open child
C15_Witness ==
    /\ vlast.type = "RemoteProcedureCall"
    /\ vlast.message.type = "Open"
    /\ vsent = [NoSends EXCEPT !.open = <<vlast.message>>]
    /\ DOMAIN vm.intents /= {}

(***************************************************************************)
(* Properties of the interpreter (SpecInterp).                             *)
(***************************************************************************)
\* the step is a call of Exec
Called == pcalls' = pcalls + 1

AtInst(st) == st.proc.pc < Len(st.heap[st.proc.code])

\* the program stands at a Rand, Mul or Open that has made its sinks
Reentry(st) == AtInst(st) /\ Waiting(Inst(st))

\* a value is there to take from the sink, or was taken by an earlier call
Has(st, ready, ch) == ready \/ ~ChanEmpty(st.chans, ch)

Filled(st) ==
    IF Inst(st).op = "Rand"
    THEN /\ Has(st, Inst(st).rhoReady, Inst(st).rhoCh)
         /\ Has(st, Inst(st).sigmaReady, Inst(st).sigmaCh)
    ELSE Has(st, Inst(st).retReady, Inst(st).retCh)

\* the value the instruction holds, or the one waiting in the sink
Held(st, ready, value, ch) == IF ready THEN value ELSE Head(st.chans[ch])

\* what a re-entry that finds every sink filled pushes
Pushed(st) ==
    LET inst == Inst(st)
    IN IF inst.op = "Rand"
       THEN ValuePrivateRn(Held(st, inst.rhoReady, inst.rho, inst.rhoCh),
                           Held(st, inst.sigmaReady, inst.sigma, inst.sigmaCh))
       ELSE IF inst.op = "Mul"
       THEN ValuePrivate(Held(st, inst.retReady, inst.ret, inst.retCh))
       ELSE ValuePublic(Held(st, inst.retReady, inst.ret, inst.retCh))

\* C16: a call of Exec on a Rand, Mul or Open that has made its sinks, if a
\* sink it awaits is empty, returns NotReady with no intent and leaves pc and
\* stack as they were, and a Rand that finds rho but not sigma takes rho out
\* of its sink into the instruction, where a later call finds it; if every
\* awaited sink is filled (or was taken before) it pushes the value made of
\* what the sinks held and adds one to pc.  No call moves the pc of a Rand,
\* Mul or Open in any other case.
C16_AdvanceOnlyWhenFilled ==
    [][Called =>
          /\ (Reentry(prog) /\ ~Filled(prog)) =>
                /\ ~pret'.ready /\ ~pret'.panic /\ pret'.intent = NilIntent
                /\ prog'.proc = prog.proc
                /\ IF /\ Inst(prog).op = "Rand"
                      /\ ~Inst(prog).rhoReady
                      /\ ~ChanEmpty(prog.chans, Inst(prog).rhoCh)
                   THEN /\ Inst(prog') = [Inst(prog) EXCEPT
                                              !.rhoReady = TRUE,
                                              !.rho = Head(prog.chans[Inst(prog).rhoCh])]
                        /\ prog'.chans = [prog.chans EXCEPT ![Inst(prog).rhoCh] = << >>]
                   ELSE prog' = prog
          /\ (Reentry(prog) /\ Filled(prog)) =>
                /\ pret'.ready /\ ~pret'.panic
                /\ prog'.proc.pc = prog.proc.pc + 1
                /\ prog'.proc.stack = Append(prog.proc.stack, Pushed(prog))
          /\ (AtInst(prog) /\ Inst(prog).op \in {"Rand", "Mul", "Open"}
                /\ prog'.proc.pc /= prog.proc.pc) =>
                Reentry(prog) /\ Filled(prog)]_vars

\* a Rand took rho while sigma was missing, returned NotReady, and a later
\* call that found sigma pushed PrivateRn of both
C16_Witness ==
    /\ pret.ready
    /\ Inst(pret.before).op = "Rand"
    /\ Inst(pret.before).rhoReady
    /\ ~Inst(pret.before).sigmaReady
    /\ ChanEmpty(pret.before.chans, Inst(pret.before).rhoCh)
    /\ prog.proc.pc = 1
    /\ Top(prog) = PrivateRn(inp)

\* the operands the first entry of the instruction pops, topmost first
Operands(op) ==
    IF op = "Mul" THEN <<"PrivateRn", "Private", "Private">>
    ELSE IF op = "Open" THEN <<"Private">> ELSE << >>

\* the stack holds the operands of the instruction
OperandsThere(st) ==
    LET want == Operands(Inst(st).op)
        stack == st.proc.stack
    IN /\ Len(stack) >= Len(want)
       /\ \A i \in 1..Len(want) : stack[Len(stack) + 1 - i].kind = want[i]

IntentOf(op) ==
    IF op = "Rand" THEN "GenerateRnTuple" ELSE IF op = "Mul" THEN "Multiply" ELSE "Open"

\* C17: the first entry of a Rand, Mul or Open that finds its operands makes
\* the sinks, empty, pops the operands and returns NotReady with the intent
\* of the instruction, pc unchanged; every later entry returns no intent and
\* pops nothing; over all calls an instruction returns at most one intent.
C17_IntentEmittedOnce ==
    [][Called =>
          /\ (AtInst(prog) /\ Inst(prog).op \in {"Rand", "Mul", "Open"}
                /\ ~Waiting(Inst(prog)) /\ OperandsThere(prog)) =>
                /\ ~pret'.ready /\ ~pret'.panic
                /\ pret'.intent.type = IntentOf(Inst(prog).op)
                /\ Waiting(Inst(prog'))
                /\ \A ch \in Sinks(pret'.intent) :
                      /\ ch \notin DOMAIN prog.chans
                      /\ ch \in DOMAIN prog'.chans
                      /\ ChanEmpty(prog'.chans, ch)
                /\ prog'.proc.pc = prog.proc.pc
                /\ prog'.proc.stack =
                      SubSeq(prog.proc.stack, 1,
                             Len(prog.proc.stack) - Len(Operands(Inst(prog).op)))
          /\ Reentry(prog) =>
                /\ pret'.intent = NilIntent
                /\ Len(prog'.proc.stack) >= Len(prog.proc.stack)
                /\ SubSeq(prog'.proc.stack, 1, Len(prog.proc.stack)) = prog.proc.stack
                /\ DOMAIN prog'.chans = DOMAIN prog.chans
          /\ \A i, j \in 1..Len(pemits') : pemits'[i].pc = pemits'[j].pc => i = j]_vars

\* a Mul returned its Multiply intent, and was entered again: it returned
\* no intent and popped nothing
C17_Witness ==
    /\ pemits = <<[pc |-> 0, type |-> "Multiply"]>>
    /\ Reentry(pret.before)
    /\ pret.intent = NilIntent
    /\ prog.proc.stack = pret.before.proc.stack
    /\ pcalls >= 2

\* C18: a Mul that has not made its sink, on a stack that ends x (Private),
\* y (Private), rn (PrivateRn), pops the three and returns one Multiply
\* intent with x, y, rn.Rho, rn.Sigma and its sink; a later call that finds
\* the result share in the sink pushes Private(share) and adds one to pc:
\* the stack is two shorter than before the Mul.
C18_MulPopsThreePushesOne ==
    [][(Called /\ AtInst(prog) /\ Inst(prog).op = "Mul") =>
          LET stack == prog.proc.stack
              n == Len(stack)
          IN /\ (~Waiting(Inst(prog)) /\ OperandsThere(prog)) =>
                   /\ pret'.intent.type = "Multiply"
                   /\ pret'.intent.xs = stack[n - 2].share
                   /\ pret'.intent.ys = stack[n - 1].share
                   /\ pret'.intent.rhos = stack[n].rho
                   /\ pret'.intent.sigmas = stack[n].sigma
                   /\ pret'.intent.ret = Inst(prog').retCh
                   /\ prog'.proc.stack = SubSeq(stack, 1, n - 3)
                   /\ prog'.proc.pc = prog.proc.pc
                   /\ pemits' = Append(pemits, [pc |-> prog.proc.pc, type |-> "Multiply"])
             /\ (Waiting(Inst(prog)) /\ ~Inst(prog).retReady
                   /\ ~ChanEmpty(prog.chans, Inst(prog).retCh)) =>
                   /\ pret'.ready
                   /\ prog'.proc.stack =
                         Append(stack, ValuePrivate(Head(prog.chans[Inst(prog).retCh])))
                   /\ prog'.proc.pc = prog.proc.pc + 1
                   /\ pemits' = pemits]_vars

\* a Mul on the stack x, y, rn was given its result share: the stack holds
\* Private(share) alone, one value where there were three
C18_Witness ==
    /\ pret.ready
    /\ Inst(pret.before).op = "Mul"
    /\ pemits = <<[pc |-> 0, type |-> "Multiply"]>>
    /\ prog.proc.pc = 1
    /\ prog.proc.stack = <<ValuePrivate(SinkValue(inp, prog, <<1, 0, "ret">>))>>

\* C19: a call of Exec on a program whose pc has reached the end of its code
\* with values on its stack returns IntentToExit with those values.
C19_ExitAtEnd ==
    (pcalls > 0 /\ ~AtInst(pret.before) /\ ~StackEmpty(pret.before)) =>
        pret.intent = IntentToExit(pret.before.proc.stack)

\* the stack is too short for the instruction, or holds a value of a variant
\* the instruction's type switch does not take (for Add: the left operand)
BadOperands(st) ==
    LET op == Inst(st).op
        stack == st.proc.stack
    IN IF op = "Add"
       THEN Len(stack) < 2 \/ stack[Len(stack) - 1].kind \notin {"Public", "Private"}
       ELSE IF op \in {"Mul", "Open"} THEN ~Waiting(Inst(st)) /\ ~OperandsThere(st)
       ELSE FALSE

\* C20: a call of Exec that finds too few values or a value of the wrong
\* variant returns an IntentToError, does not crash, and leaves pc unchanged.
C20_BadOperandsYieldError ==
    (pcalls > 0 /\ AtInst(pret.before) /\ BadOperands(pret.before)) =>
        /\ ~pret.panic
        /\ pret.intent.type = "Error"
        /\ prog.proc.pc = pret.before.proc.pc

(***************************************************************************)
(* The end-to-end program Push(Public 3); Push(Public 4); Add; Open        *)
(* (SpecVM).                                                               *)
(***************************************************************************)
\* the last step was the Exec of a program whose own code is CodeAddOpen
RanAddOpen ==
    /\ vlast.type = "Exec"
    /\ vlast.proc.code = 2
    /\ client.heap[2] = CodeAddOpen

\* C21: the program Push(Public 3); Push(Public 4); Add; Open returns
\* Public 7: the dispatcher's output for its Exec is Result(<<Public 7>>).
C21_AddOpenReturnsSeven ==
    RanAddOpen => vout = <<NewVMResult(<<ValuePublic(7)>>)>>

\* the Add pushed Public 7 without suspending, and the Open that popped it
\* ended the program with the error "unexpected value" at pc 3
C21_Witness ==
    /\ RanAddOpen
    /\ Len(vout) = 1
    /\ vout[1].type = "Error"
    /\ vout[1].err.err = "unexpected value"
    /\ vout[1].err.pc = 3
    /\ vsent = NoSends

Committed(ped, s, t) ==
    (ModPow(ped.g.int, s, ped.p.int) * ModPow(ped.h.int, t, ped.p.int)) % ped.p.int

\* the last two calls committed to pairs of integers
TwoCommits ==
    /\ pedersen.op = "Commit"
    /\ ~pedersen.ret.nil
    /\ ~pedersen.prev.ret.nil

\* C25: the product mod p of two commitments of a valid scheme is the
\* commitment to the sums mod q of their values and of their blindings.
C25_CommitHomomorphic ==
    TwoCommits =>
        (pedersen.prev.ret.int * pedersen.ret.int) % pedersen.ped.p.int =
            Committed(pedersen.ped,
                      (pedersen.prev.s.int + pedersen.s.int) % pedersen.ped.q.int,
                      (pedersen.prev.t.int + pedersen.t.int) % pedersen.ped.q.int)

\* with (503, 251, 351, 8): Commit(100, 50) * Commit(80, 200) mod 503 is
\* what commits to (180, 250)
C25_Witness ==
    /\ TwoCommits
    /\ pedersen.ped = [err |-> "nil", p |-> BigInt(PedP), q |-> BigInt(Q),
                        g |-> BigInt(PedG), h |-> BigInt(PedH)]
    /\ pedersen.prev.s.int = 100 /\ pedersen.prev.t.int = 50
    /\ pedersen.s.int = 80 /\ pedersen.t.int = 200
    /\ (pedersen.prev.ret.int * pedersen.ret.int) % PedP = Committed(pedersen.ped, 180, 250)

\* C26: Verify(s, t, C) returns ErrNilArguments when any of s, t, C is nil,
\* no error exactly when C is g^s h^t mod p, and ErrUnacceptableCommitment
\* for every other C; Commit returns nil when s or t is nil.
C26_VerifyOutcomes ==
    /\ pedersen.op = "Verify" =>
          IF pedersen.s.nil \/ pedersen.t.nil \/ pedersen.commitment.nil
          THEN pedersen.ret = "ErrNilArguments"
          ELSE IF pedersen.commitment.int =
                      Committed(pedersen.ped, pedersen.s.int, pedersen.t.int)
          THEN pedersen.ret = "nil"
          ELSE pedersen.ret = "ErrUnacceptableCommitment"
    /\ pedersen.op = "Commit" =>
          ((pedersen.s.nil \/ pedersen.t.nil) => pedersen.ret.nil)

\* Verify refused the commitment to (s, t) perturbed by 1
C26_Witness ==
    /\ pedersen.op = "Verify"
    /\ ~pedersen.s.nil /\ ~pedersen.t.nil /\ ~pedersen.commitment.nil
    /\ pedersen.commitment.int =
           Committed(pedersen.ped, pedersen.s.int, pedersen.t.int) + 1
    /\ pedersen.ret = "ErrUnacceptableCommitment"

\* the arguments of New that the scheme must not be built from
BadArgs(a) ==
    \/ a.p.nil \/ a.q.nil \/ a.g.nil \/ a.h.nil
    \/ (a.p.int - 1) % a.q.int /= 0
    \/ ModPow(a.g.int, a.q.int, a.p.int) /= 1
    \/ ModPow(a.h.int, a.q.int, a.p.int) /= 1

\* C27: New fails when any of p, q, g, h is nil, when q does not divide
\* p - 1, or when g or h is outside the subgroup of order q, and the scheme
\* it returns then has no parameters to commit with.
C27_BadSchemeRejected ==
    (pedersen.op = "New" /\ BadArgs(pedersen.args)) =>
        /\ pedersen.ped.err /= "nil"
        /\ pedersen.ped.p.nil /\ pedersen.ped.q.nil
        /\ pedersen.ped.g.nil /\ pedersen.ped.h.nil

\* New refused a g of order 2q, all else being right
C27_Witness ==
    /\ pedersen.op = "New"
    /\ ~pedersen.args.p.nil /\ ~pedersen.args.q.nil
    /\ ~pedersen.args.g.nil /\ ~pedersen.args.h.nil
    /\ (pedersen.args.p.int - 1) % pedersen.args.q.int = 0
    /\ ModPow(pedersen.args.g.int, pedersen.args.q.int, pedersen.args.p.int) /= 1
    /\ pedersen.ped.err /= "nil"

(***************************************************************************)
(* Verifiable secret sharing (SpecVss).                                    *)
(***************************************************************************)
\* every set of k of the shares joins to secret
AnyKJoinTo(secret) ==
    \A S \in SUBSET (1..vshares.n) :
        Cardinality(S) = vshares.k =>
            /\ ~JoinFails([i \in S |-> vshares.shares[i].share])
            /\ Join([i \in S |-> vshares.shares[i].share]) = secret

\* C22: sharing a secret among n with threshold k gives n verifiable shares
\* of indices 1..n, each accepted by Verify, and every k of their Shamir
\* shares join to the secret.
C22_SharesVerifyAndJoin ==
    vshares.op = "Share" =>
        /\ DOMAIN vshares.shares = 1..vshares.n
        /\ \A i \in 1..vshares.n :
              /\ vshares.shares[i].share.index = i
              /\ vshares.verified[i].ok
        /\ AnyKJoinTo(vshares.secret)

\* the secret 17 shared among 5 with threshold 3 and verified
C22_Witness ==
    /\ vshares.op = "Share"
    /\ vshares.secret = 17 /\ vshares.n = 5 /\ vshares.k = 3
    /\ \A i \in 1..5 : vshares.verified[i].ok
    /\ Join([i \in {2, 4, 5} |-> vshares.shares[i].share]) = 17

\* C23: a verifiable share whose secret share had a non-zero field element
\* added to its value, index and commitments unchanged, is refused by Verify.
C23_TamperingDetected ==
    vshares.op = "Tamper" =>
        /\ ~vshares.verified[vshares.i].panic
        /\ ~vshares.verified[vshares.i].ok

\* share 3 of 5 was perturbed by q - 1 and refused, the others still accepted
C23_Witness ==
    /\ vshares.op = "Tamper"
    /\ vshares.n = 5 /\ vshares.i = 3 /\ vshares.r = Q - 1
    /\ ~vshares.verified[3].ok
    /\ \A i \in {1, 2, 4, 5} : vshares.verified[i].ok

\* C24: the sums A[i] + B[i] of two sharings with the same n and k are each
\* accepted by Verify, and every k of them join to a + b mod q.
C24_AdditionHomomorphic ==
    vshares.op = "Add" =>
        /\ \A i \in 1..vshares.n : vshares.verified[i].ok
        /\ AnyKJoinTo((vshares.secret + vshares.secretB) % Q)

\* 17 + 250 shared among 5 with threshold 3: the sums verify and join to 16
C24_Witness ==
    /\ vshares.op = "Add"
    /\ vshares.secret = 17 /\ vshares.secretB = Q - 1
    /\ vshares.n = 5 /\ vshares.k = 3
    /\ \A i \in 1..5 : vshares.verified[i].ok
    /\ Join([i \in {1, 3, 5} |-> vshares.shares[i].share]) = 16

(***************************************************************************)
(* Repeated and out-of-range OpenMul messages (SpecMul).                   *)
(***************************************************************************)
\* this call of Reduce is handed the OpenMul the call before it was handed
Duplicate ==
    /\ last.msg.type = "OpenMul"
    /\ last'.msg.type = "OpenMul"
    /\ last'.msg = last.msg

\* C29: an OpenMul delivered a second time leaves muls, opens and results
\* as the first delivery left them and emits nothing, also when the first
\* delivery completed the quorum; an OpenMul of a sender already stored
\* replaces the stored one and leaves the number of senders unchanged.
C29_DuplicateIdempotent ==
    [][/\ Duplicate =>
            /\ mult' = mult
            /\ emitted' = emitted
            /\ out' = << >>
       /\ \A id \in IDs :
             (/\ last'.msg.type = "OpenMul" /\ last'.msg.id = id
              /\ id \in DOMAIN mult[1].opens
              /\ last'.msg.from \in DOMAIN mult[1].opens[id]) =>
                /\ id \in DOMAIN mult'[1].opens
                /\ mult'[1].opens[id][last'.msg.from] = last'.msg
                /\ Cardinality(DOMAIN mult'[1].opens[id]) =
                       Cardinality(DOMAIN mult[1].opens[id])
      ]_vars

\* the OpenMul that completed the quorum was delivered again: the Result is
\* cached and the message is stored anew under the id
C29_Witness ==
    \E id \in IDs :
        /\ last.msg.type = "OpenMul" /\ last.msg.id = id
        /\ id \in DOMAIN mult[1].results
        /\ id \in DOMAIN mult[1].opens
        /\ mult[1].opens[id] = (last.msg.from :> last.msg)
        /\ out = << >>

\* C30: an OpenMul whose sender is outside 1..n is answered with an Error
\* and not stored: the senders stored for an id are all in 1..n, at most n.
C30_SendersInRange ==
    /\ \A id \in DOMAIN mult[1].opens :
          /\ DOMAIN mult[1].opens[id] \subseteq 1..mult[1].n
          /\ Cardinality(DOMAIN mult[1].opens[id]) <= mult[1].n
    /\ (last.msg.type = "OpenMul" /\ last.msg.from \notin 1..mult[1].n) =>
          (Len(out) = 1 /\ out[1].type = "Error")

\* the OpenMul of sender n + 1 is stored and nothing was returned
C30_Witness ==
    \E id \in IDs :
        /\ last.msg.type = "OpenMul" /\ last.msg.from = mult[1].n + 1
        /\ id \in DOMAIN mult[1].opens
        /\ mult[1].n + 1 \in DOMAIN mult[1].opens[id]
        /\ out = << >>

(***************************************************************************)
(* Repeated Mul signals and the state of a completed id (SpecMul).         *)
(***************************************************************************)
\* this call of Reduce is handed a Mul for id and returns
MulStep(id) ==
    /\ last'.msg.type = "Mul"
    /\ last'.msg.id = id
    /\ crashed' = crashed

\* C31: a second Mul for an id that is pending is answered with an Error and
\* the inputs of the first Mul are kept, so that the Result of the id is
\* computed from the sigmas of the first Mul.
C31_SecondMulRejected ==
    [][\A id \in IDs :
          (MulStep(id) /\ Pending(1, id)) =>
              /\ Len(out') = 1 /\ out'[1].type = "Error"
              /\ id \in DOMAIN mult'[1].muls
              /\ mult'[1].muls[id] = mult[1].muls[id]
      ]_vars

\* a second Mul with other sigmas replaced the first while the id was pending
C31_Witness ==
    \E id \in IDs :
        /\ Pending(1, id)
        /\ mulCount[1][id] = 2
        /\ last.msg = EnvMul(inp, id, mult[1].index, "alt")
        /\ mult[1].muls[id] = last.msg
        /\ out = <<NewOpenMul(id, mult[1].index, HonestOpenMul(inp, id, mult[1].index).shares)>>

\* the OpenMul messages among msgs
OpenMuls(msgs) == {j \in 1..Len(msgs) : msgs[j].type = "OpenMul"}

C33_CachedMulIsFrameFree ==
    [][\A id \in IDs :
          /\ (MulStep(id) /\ id \in DOMAIN mult[1].results) =>
                /\ out' = <<mult[1].results[id]>>
                /\ mult' = mult
          /\ (id \notin DOMAIN mult[1].results /\ id \in DOMAIN mult'[1].results) =>
                /\ HasResult(out', id)
                /\ \A j \in Results(out', id) : out'[j] = mult'[1].results[id]
          /\ id \in DOMAIN mult[1].results =>
                /\ id \in DOMAIN mult'[1].results
                /\ mult'[1].results[id] = mult[1].results[id]
      ]_vars

\* a Mul with other sigmas arrived after completion and was answered with
\* the cached Result alone
C33_Witness ==
    \E id \in IDs :
        /\ last.msg = EnvMul(inp, id, mult[1].index, "alt")
        /\ emitted[1][id] = 2
        /\ id \in DOMAIN mult[1].results
        /\ out = <<mult[1].results[id]>>
        /\ id \notin DOMAIN mult[1].muls

\* C34: an id that has a cached Result has no entry in muls and none in
\* opens.
C34_NoWorkingStateAfterResult ==
    \A id \in DOMAIN mult[1].results :
        /\ id \notin DOMAIN mult[1].muls
        /\ id \notin DOMAIN mult[1].opens

\* the messages of a quorum of senders are stored anew under a completed id
C34_Witness ==
    \E id \in IDs :
        /\ id \in DOMAIN mult[1].results
        /\ id \in DOMAIN mult[1].opens
        /\ Cardinality(DOMAIN mult[1].opens[id]) >= mult[1].k
        /\ id \notin DOMAIN mult[1].muls

(***************************************************************************)
(* Results without an outstanding intent (SpecVM).                         *)
(***************************************************************************)
\* this call of the dispatcher's Reduce is handed the Result of a child
ResultStep ==
    vlast'.type \in {"RngResult", "Result", "OpenResult"}

\* C35: a Result of a child whose id matches no outstanding intent is
\* ignored: no output, nothing sent, no sink filled, no program run, programs
\* and intents unchanged; and a Result that completed its intent leaves no
\* intent under its id, so that its second delivery is such a Result.
C35_UnmatchedResultIgnored ==
    [][ResultStep =>
          /\ msgidToIID(vlast'.id) \notin DOMAIN vm.intents =>
                /\ vm' = vm
                /\ vout' = << >>
                /\ vsent' = NoSends
                /\ ~vmCrashed'
                /\ terminals' = terminals
          /\ (/\ msgidToIID(vlast'.id) \in DOMAIN vm.intents
              /\ msgidToIID(vlast'.id) \in DOMAIN vm'.intents) =>
                /\ vm'.procs = vm.procs
                /\ vm'.intents = vm.intents
      ]_vars

\* the Result of a multiplication that was completed before arrived again and
\* was dropped: its program is past the Mul and waits for its Open
C35_Witness ==
    /\ vlast.type = "Result"
    /\ vlast.id = <<1, 3>>
    /\ msgidToIID(vlast.id) \notin DOMAIN vm.intents
    /\ 1 \in DOMAIN vm.procs
    /\ vm.procs[1].pc = 4
    /\ vout = << >>
    /\ vsent = NoSends

(***************************************************************************)
(* The outstanding intents of the dispatcher (SpecVM).                     *)
(***************************************************************************)
\* C36: every program has at most one outstanding intent registered, and the
\* program id in every registered intent id is that of a program the
\* dispatcher holds.
C36_OneIntentPerProgram ==
    /\ \A i, j \in DOMAIN vm.intents :
          msgidToPid(iidToMsgid(i)) = msgidToPid(iidToMsgid(j)) => i = j
    /\ \A i \in DOMAIN vm.intents :
          /\ msgidToPid(iidToMsgid(i)) \in DOMAIN vm.procs
          /\ vm.intents[i].iid = i

\* two programs are suspended, each with its one intent: program 1 at its
\* Mul, program 2 at its Rand
C36_Witness ==
    /\ DOMAIN vm.intents = {<<1, 3>>, <<2, 2>>}
    /\ vm.intents[<<1, 3>>].type = "Multiply"
    /\ vm.intents[<<2, 2>>].type = "GenerateRnTuple"
    /\ DOMAIN vm.procs = {1, 2}

(***************************************************************************)
(* The pc and the stack across one call of Exec (SpecInterp).              *)
(***************************************************************************)
\* C37: a call of Exec that returns Ready has advanced pc by one, one that
\* returns NotReady has left pc alone; pc never decreases and never exceeds
\* the length of the code, and a call with pc at the end of the code returns
\* the error "code overflow" with stack and pc unchanged.
C37_PcDiscipline ==
    pcalls > 0 =>
        /\ ~pret.panic =>
              IF pret.ready
              THEN prog.proc.pc = pret.before.proc.pc + 1
              ELSE prog.proc.pc = pret.before.proc.pc
        /\ prog.proc.pc >= pret.before.proc.pc
        /\ prog.proc.pc <= Len(prog.heap[prog.proc.code])
        /\ ~AtInst(pret.before) =>
              /\ ~pret.ready /\ ~pret.panic
              /\ pret.intent.type = "Error"
              /\ pret.intent.err = "code overflow"
              /\ pret.intent.pc = pret.before.proc.pc
              /\ prog.proc = pret.before.proc

\* a Push advanced pc to the end of the code, and the call after it returned
\* the overflow error and left the four values of the stack alone
C37_Witness ==
    /\ pcalls = 2
    /\ ~AtInst(pret.before)
    /\ pret.intent.type = "Error"
    /\ pret.intent.err = "code overflow"
    /\ prog.proc.pc = 1
    /\ Len(prog.proc.stack) = MaxStack + 1
    /\ prog.heap[1][1].op = "Push"

\* C38: a call of Exec that returns an IntentToError leaves the stack, the
\* pc and the instruction as they were before the call.
C38_ErrorLeavesProgramIntact ==
    (pcalls > 0 /\ pret.intent.type = "Error") =>
        /\ prog.proc.stack = pret.before.proc.stack
        /\ prog.proc.pc = pret.before.proc.pc
        /\ prog.heap = pret.before.heap

\* a Mul found a Public where it wanted x: it returned the error with rn, y
\* and the Public all popped
C38_Witness ==
    /\ pcalls = 1
    /\ pret.intent.type = "Error"
    /\ Inst(pret.before).op = "Mul"
    /\ Len(pret.before.proc.stack) = 3
    /\ pret.before.proc.stack[1].kind = "Public"
    /\ prog.proc.stack = << >>
    /\ prog.proc.pc = 0
====
